---------------------------- MODULE Spec2Model ----------------------------
(***************************************************************************)
(* A model of the concurrency toolkit of src/my_threading.py (the same     *)
(* code, without comments, is src/threading_new.py): the reentrant Lock,   *)
(* the _Waiter gate, Condition and Event.                                  *)
(*                                                                         *)
(* Granularity.  Threads are preemptively scheduled, so a statement of     *)
(* Lock.acquire / Lock.release whose effect another thread can observe is  *)
(* a step of its own.  Consecutive statements are one step only where no   *)
(* step of another thread can tell the intermediate states apart:          *)
(*   - lines 81-95: a caller that is not the owner is seen in the waiting  *)
(*     set only through "owner in waiting_threads", i.e. once it is the    *)
(*     owner, so registering, the heuristic and end_time are one step;     *)
(*   - lines 122-124: after the depth reached 0 the heuristic reads only   *)
(*     locked_count = 0, and no other thread is the owner, so clearing     *)
(*     owner and stamp and releasing the raw lock are one step.            *)
(*                                                                         *)
(* The raw lock (_thread.allocate_lock()) is the host primitive:           *)
(* acquire() without arguments blocks until the lock is free and then      *)
(* returns True; Lock.acquire relies on exactly that at line 101.          *)
(*                                                                         *)
(* Time is a bounded tick counter; utime.ticks_ms() reads it.  A timeout   *)
(* is a positive number of ticks.                                          *)
(***************************************************************************)
EXTENDS Integers, Sequences, FiniteSets, TLC

\* ------------------------------------------------------------- bounds ----
\* threads using the objects
NThreads == 2
\* _Waiter objects created in a run
MaxWaiters == 2
\* depth to which a thread re-enters the lock through Lock.acquire
MaxDepth == 2
\* last value of the clock
MaxTime == 1
\* largest timeout argument
MaxTimeout == 1
\* a timed wait starts only while fewer than MaxTimers waiters exist
MaxTimers == 1
\* largest initial value of a semaphore
MaxValue == 2
\* largest argument n of Semaphore.release, and permits released in a run
MaxRelease == 2
\* largest capacity of a queue
MaxSize == 2
\* items are 1..MaxItem
MaxItem == 3
\* longest list the heap functions are applied to
MaxHeap == 5
\* largest stack_size argument of Thread.start, in KB
MaxStack == 1
\* raw threads that _thread.start_new_thread starts in a run
MaxBoot == 2
\* return values are 1..MaxRv
MaxRv == 1
\* exceptions are 1..MaxExc
MaxExc == 1
\* work items submitted to a pool in a run
MaxSubmit == 2
\* largest max_workers of a pool
MaxWorkers == 2

\* -------------------------------------------------- program constants ----
\* my_threading.py:65  "> 30000": the staleness threshold.  One tick of the
\* model's clock stands for more than 30000 ms passing, so a lock is stale
\* as soon as the clock is more than 0 ticks past its stamp.
StaleAfter == 0
\* my_threading.py:417  Queue.__init__(self, max_size=100)
DEFAULT_MAX_SIZE == 100

\* ------------------------------------------------------------ domains ----
None == 0
Threads == 1..NThreads
WaiterIds == 1..MaxWaiters
\* the context in which the osTimer of waiter w runs its callback
TimerOf(w) == NThreads + w
TimerThreads == {TimerOf(w) : w \in WaiterIds}
\* the raw threads started by _thread.start_new_thread, in the order of
\* the calls
Boot(i) == NThreads + MaxWaiters + i
BootThreads == {Boot(i) : i \in 1..MaxBoot}
Agents == Threads \cup TimerThreads \cup BootThreads
\* Lock objects: the lock under test / the Condition's backing lock, the
\* two Locks of every _Waiter (lines 145 and 149), and the lock of the
\* Event of the _Result of every _WorkItem (lines 782, 597, 279, 194)
L == 0
WLock(w) == 2 * w - 1
TLock(w) == 2 * w
RLock(k) == 2 * MaxWaiters + k
LockIds == 0..(2 * MaxWaiters + MaxSubmit)
NoTimeout == -1
Timeouts == {NoTimeout} \cup (1..MaxTimeout)

VARIABLES
    \* Lock fields, one value per Lock object
    owner,               \* Lock.__owner
    locked_count,        \* Lock.__locked_count
    waiting_threads,     \* Lock.__waiting_threads
    last_acquire_time,   \* Lock.__last_acquire_time
    rawLocked,           \* state of Lock.__lock, the raw host lock
    \* control state of every thread / timer context
    pc,                  \* the statement the agent is at
    lk,                  \* the Lock object of the Lock call in progress
    ret,                 \* where the Lock call in progress returns to
    exc,                 \* where the Lock call in progress raises to
    deadline,            \* Lock.acquire's local end_time (0: no timeout)
    \* history: successful acquires minus successful releases of lock L
    held,
    now,                 \* utime.ticks_ms()
    \* Condition and its _Waiter objects
    waiters,             \* Condition.__waiters, a sequence of waiter ids
    nwaiters,            \* number of _Waiter objects created so far
    wgotit,              \* _Waiter.__gotit
    wtimer,              \* _Waiter.__timer is not None
    armed,               \* the osTimer of the waiter is counting down
    expiry,              \* the time at which that osTimer fires
    myw,                 \* Condition.wait's local waiter
    wtmo,                \* Condition.wait's argument timeout
    gotit,               \* Condition.wait's local gotit
    \* history: the waiters of calls in progress that a notify() selected
    notified,
    \* Event
    flag,                \* Event.__flag
    eop,                 \* "wait" while the thread is inside Event.wait
    eclear,              \* Event.wait's argument clear
    etmo,                \* Event.wait's argument timeout
    eend,                \* Condition.wait_for's local end_time (0: none)
    \* Queue.__not_empty.__waiters; the waiters of Queue.__not_full, like
    \* those of every other Condition, are in the variable waiters
    waiters_ne,
    \* Semaphore and BoundedSemaphore
    value,               \* Semaphore.__value
    initial_value,       \* BoundedSemaphore.__initial_value
    sarg,                \* release's argument n (0: no release in progress)
    sacq,                \* history: acquire calls that returned True
    srel,                \* history: permits released
    \* Queue
    queue,               \* Queue.queue
    qkind,               \* the class of the queue object
    max_size,            \* Queue.__max_size
    qitem,               \* Queue.get's local item (0: none)
    \* PriorityQueue's heap functions applied to a list
    heap,
    hret,                \* the item the last _get returned (0: none)
    \* Thread
    started,             \* Thread.__started
    spawned,             \* history: calls of _thread.start_new_thread
    ident,               \* Thread.__ident
    stack_size,          \* the setting of _thread.stack_size
    starg,               \* per caller: start's argument stack_size
    newid,               \* per caller: what start_new_thread returned
    bout,                \* per raw thread: how its target ended
    \* _Result
    rexc,                \* _Result.__exc
    rrv,                 \* _Result.__rv
    gret,                \* per caller: what its last get returned or raised
    \* AsyncTask
    status,              \* AsyncTask.__status
    tresult,             \* AsyncTask.__result: the number of a _Result (0: None)
    tthread,             \* AsyncTask.__thread: the number of a Thread (0: None)
    terror,              \* AsyncTask.__error
    start_time,          \* AsyncTask.__start_time
    end_time,            \* AsyncTask.__end_time
    results,             \* per _Result: <<the Event is set, __exc, __rv>>
    tident,              \* per Thread: __ident
    tstopped,            \* per Thread: __stopped_event is set
    brv,                 \* per raw thread: __run's local rv
    berr,                \* per raw thread: __run's local e
    ran,                 \* history: calls of the target
    cpend,               \* history: a cancel() found the task PENDING
    \* ThreadPoolExecutor
    max_workers,         \* ThreadPoolExecutor.__max_workers
    pshutdown,           \* ThreadPoolExecutor.__shutdown
    threads,             \* ThreadPoolExecutor.__threads
    nresult,             \* the number of _Result objects the pool's calls created
    work_result,         \* per _WorkItem created: its attribute result
    finished,            \* the _Result objects whose Event is set
    pop,                 \* per caller: the pool call in progress
    pwork,               \* per caller: submit's local work (0: none)
    presult,             \* per caller: submit's local result (0: none)
    pwait,               \* per caller: shutdown's argument wait
    sseen,               \* history: the items submitted when shutdown was called
    sdone,               \* history: the caller's shutdown(wait=True) has returned
    given,               \* history, per _WorkItem: what its submit gave the caller
    shutret,             \* history: a shutdown(wait=True) has returned
    \* _worker and _WorkItem
    wtask,               \* _worker's local task (0: None)
    wout,                \* per _WorkItem: how its target ended (0: not called,
                         \* v > 0: returned v, -e < 0: raised e)
    rstore,              \* per _WorkItem: <<__exc, __rv>> of its result
    wdone                \* history: the items whose call task() has ended

lockVars == <<owner, locked_count, waiting_threads, last_acquire_time, rawLocked>>
ctlVars == <<pc, lk, ret, exc, deadline>>
condVars == <<waiters, waiters_ne, nwaiters, wgotit, wtimer, armed, expiry, myw, wtmo,
              gotit, notified>>
evVars == <<flag, eop, eclear, etmo, eend>>
semVars == <<value, initial_value, sarg, sacq, srel>>
qVars == <<queue, qkind, max_size, qitem>>
heapVars == <<heap, hret>>
thVars == <<started, spawned, ident, stack_size, starg, newid, bout>>
resVars == <<rexc, rrv, gret>>
taskVars == <<status, tresult, tthread, terror, start_time, end_time, results,
              tident, tstopped, brv, berr, ran, cpend>>
wkVars == <<wtask, wout, rstore, wdone>>
poolVars == <<max_workers, pshutdown, threads, nresult, work_result, finished,
              pop, pwork, presult, pwait, sseen, sdone, given, shutret, wkVars>>
appVars == <<resVars, taskVars, poolVars>>
restVars == <<semVars, qVars, heapVars, thVars, appVars>>
vars == <<owner, locked_count, waiting_threads, last_acquire_time, rawLocked,
          pc, lk, ret, exc, deadline, held, now,
          waiters, nwaiters, wgotit, wtimer, armed, expiry, myw, wtmo, gotit,
          notified, flag, eop, eclear, etmo, eend, waiters_ne,
          value, initial_value, sarg, sacq, srel, queue, qkind, max_size, qitem,
          heap, hret, started, spawned, ident, stack_size, starg, newid, bout,
          rexc, rrv, gret,
          status, tresult, tthread, terror, start_time, end_time, results,
          tident, tstopped, brv, berr, ran, cpend,
          max_workers, pshutdown, threads, nresult, work_result, finished,
          pop, pwork, presult, pwait, sseen, sdone, given, shutret,
          wtask, wout, rstore, wdone>>

\* ------------------------------------------------------------- Lock ------
\* Lock.__init__ (lines 44-49), for every Lock object
LockInit ==
    /\ owner = [l \in LockIds |-> None]
    /\ locked_count = [l \in LockIds |-> 0]
    /\ waiting_threads = [l \in LockIds |-> {}]
    /\ last_acquire_time = [l \in LockIds |-> 0]
    /\ rawLocked = [l \in LockIds |-> FALSE]

CtlInit ==
    /\ pc = [a \in Agents |-> "idle"]
    /\ lk = [a \in Agents |-> L]
    /\ ret = [a \in Agents |-> "idle"]
    /\ exc = [a \in Agents |-> "idle"]
    /\ deadline = [a \in Agents |-> 0]

\* Lock._check_deadlock (lines 58-67), evaluated by agent a on lock l when
\* a has just been added to the waiting set (line 88)
check_deadlock(a, l) ==
    \/ a \in (waiting_threads[l] \cup {a}) /\ owner[l] \in (waiting_threads[l] \cup {a})
    \/ locked_count[l] > 0 /\ now - last_acquire_time[l] > StaleAfter

\* history variable: net depth of lock L per thread
HeldAfter(a, l, d) ==
    IF l = L /\ a \in Threads THEN [held EXCEPT ![a] = held[a] + d] ELSE held

\* Lock.acquire, lines 81-95 and (when the heuristic fires) 92 and 109:
\* called by agent a on lock l from a call site that continues at r when
\* the call returns and at x when it raises.
\*   - the owner re-enters: the depth grows and the call returns True;
\*   - the heuristic fires: the caller leaves the waiting set again
\*     (finally, line 109) and the RuntimeError propagates;
\*   - otherwise the caller is registered and goes on to the raw lock.
AcquireEnter(a, l, r, x, timeout) ==
    /\ IF owner[l] = a
       THEN /\ locked_count' = [locked_count EXCEPT ![l] = locked_count[l] + 1]
            /\ pc' = [pc EXCEPT ![a] = r]
            /\ held' = HeldAfter(a, l, 1)
            /\ UNCHANGED <<waiting_threads, deadline, lk, ret, exc>>
       ELSE IF check_deadlock(a, l)
       THEN /\ pc' = [pc EXCEPT ![a] = x]
            /\ UNCHANGED <<locked_count, waiting_threads, deadline, held, lk, ret, exc>>
       ELSE /\ waiting_threads' = [waiting_threads EXCEPT ![l] = waiting_threads[l] \cup {a}]
            /\ pc' = [pc EXCEPT ![a] = "raw"]
            /\ lk' = [lk EXCEPT ![a] = l]
            /\ ret' = [ret EXCEPT ![a] = r]
            /\ exc' = [exc EXCEPT ![a] = x]
            /\ deadline' = [deadline EXCEPT ![a] = IF timeout = NoTimeout THEN 0 ELSE now + timeout]
            /\ UNCHANGED <<locked_count, held>>
    /\ UNCHANGED <<owner, last_acquire_time, rawLocked, now>>

\* mutant: the raw lock is taken without waiting for it to be free
MutAcquireRawNoWait(a) ==
    /\ pc[a] = "raw"
    /\ rawLocked' = [rawLocked EXCEPT ![lk[a]] = TRUE]
    /\ pc' = [pc EXCEPT ![a] = "own"]
    /\ deadline' = [deadline EXCEPT ![a] = 0]
    /\ UNCHANGED <<owner, locked_count, waiting_threads, last_acquire_time,
                   lk, ret, exc, held, now, condVars, evVars, restVars>>

\* line 96 (with a timeout) and line 101 (without): the raw acquire() is
\* called without arguments in both branches, so it blocks until the raw
\* lock is free and returns True; the loop body of lines 97-99 never runs.
AcquireRaw(a) ==
    /\ pc[a] = "raw"
    /\ ~rawLocked[lk[a]]
    /\ rawLocked' = [rawLocked EXCEPT ![lk[a]] = TRUE]
    /\ pc' = [pc EXCEPT ![a] = "own"]
    /\ deadline' = [deadline EXCEPT ![a] = 0]
    /\ UNCHANGED <<owner, locked_count, waiting_threads, last_acquire_time,
                   lk, ret, exc, held, now, condVars, evVars, restVars>>

\* line 103
AcquireSetOwner(a) ==
    /\ pc[a] = "own"
    /\ owner' = [owner EXCEPT ![lk[a]] = a]
    /\ pc' = [pc EXCEPT ![a] = "cnt"]
    /\ UNCHANGED <<locked_count, waiting_threads, last_acquire_time, rawLocked,
                   lk, ret, exc, deadline, held, now, condVars, evVars, restVars>>

\* line 104
AcquireSetCount(a) ==
    /\ pc[a] = "cnt"
    /\ locked_count' = [locked_count EXCEPT ![lk[a]] = 1]
    /\ pc' = [pc EXCEPT ![a] = "stamp"]
    /\ UNCHANGED <<owner, waiting_threads, last_acquire_time, rawLocked,
                   lk, ret, exc, deadline, held, now, condVars, evVars, restVars>>

\* line 105
AcquireStamp(a) ==
    /\ pc[a] = "stamp"
    /\ last_acquire_time' = [last_acquire_time EXCEPT ![lk[a]] = now]
    /\ pc' = [pc EXCEPT ![a] = "fin"]
    /\ UNCHANGED <<owner, locked_count, waiting_threads, rawLocked,
                   lk, ret, exc, deadline, held, now, condVars, evVars, restVars>>

\* lines 106-109: the finally clause on the way out of a successful acquire
AcquireFinally(a) ==
    /\ pc[a] = "fin"
    /\ waiting_threads' = [waiting_threads EXCEPT ![lk[a]] = waiting_threads[lk[a]] \ {a}]
    /\ pc' = [pc EXCEPT ![a] = ret[a]]
    /\ held' = HeldAfter(a, lk[a], 1)
    /\ lk' = [lk EXCEPT ![a] = L]
    /\ ret' = [ret EXCEPT ![a] = "idle"]
    /\ exc' = [exc EXCEPT ![a] = "idle"]
    /\ UNCHANGED <<owner, locked_count, last_acquire_time, rawLocked,
                   deadline, now, condVars, evVars, restVars>>

\* Lock.release, lines 117-121: called by agent a on lock l from a call
\* site that continues at r when the call returns and at x when it raises.
\* A caller that is not the owner gets the RuntimeError; the owner
\* decrements the depth and returns unless the depth reached 0.
\* mutant: the ownership test of line 117 is missing
MutReleaseEnterUnchecked(a, l, r, x) ==
    /\ locked_count' = [locked_count EXCEPT ![l] = IF locked_count[l] > 0 THEN locked_count[l] - 1 ELSE 0]
    /\ IF locked_count'[l] = 0
       THEN /\ pc' = [pc EXCEPT ![a] = "unlock"]
            /\ lk' = [lk EXCEPT ![a] = l]
            /\ ret' = [ret EXCEPT ![a] = r]
            /\ exc' = [exc EXCEPT ![a] = x]
            /\ UNCHANGED held
       ELSE /\ pc' = [pc EXCEPT ![a] = r]
            /\ held' = HeldAfter(a, l, -1)
            /\ UNCHANGED <<lk, ret, exc>>
    /\ UNCHANGED <<owner, waiting_threads, last_acquire_time, rawLocked, deadline, now>>

\* mutant: the raw lock is released by every release, whatever the depth
MutReleaseEnterAlwaysUnlock(a, l, r, x) ==
    /\ IF owner[l] # a
       THEN /\ pc' = [pc EXCEPT ![a] = x]
            /\ UNCHANGED <<locked_count, lk, ret, exc>>
       ELSE /\ locked_count' = [locked_count EXCEPT ![l] = locked_count[l] - 1]
            /\ pc' = [pc EXCEPT ![a] = "unlock"]
            /\ lk' = [lk EXCEPT ![a] = l]
            /\ ret' = [ret EXCEPT ![a] = r]
            /\ exc' = [exc EXCEPT ![a] = x]
    /\ UNCHANGED <<owner, waiting_threads, last_acquire_time, rawLocked, deadline, held, now>>

ReleaseEnter(a, l, r, x) ==
    /\ IF owner[l] # a
       THEN /\ pc' = [pc EXCEPT ![a] = x]
            /\ UNCHANGED <<locked_count, held, lk, ret, exc>>
       ELSE /\ locked_count' = [locked_count EXCEPT ![l] = locked_count[l] - 1]
            /\ IF locked_count'[l] = 0
               THEN /\ pc' = [pc EXCEPT ![a] = "unlock"]
                    /\ lk' = [lk EXCEPT ![a] = l]
                    /\ ret' = [ret EXCEPT ![a] = r]
                    /\ exc' = [exc EXCEPT ![a] = x]
                    /\ UNCHANGED held
               ELSE /\ pc' = [pc EXCEPT ![a] = r]
                    /\ held' = HeldAfter(a, l, -1)
                    /\ UNCHANGED <<lk, ret, exc>>
    /\ UNCHANGED <<owner, waiting_threads, last_acquire_time, rawLocked, deadline, now>>

\* lines 122-124: owner and stamp are cleared, the raw lock is released
\* mutant: the owner is not cleared
MutReleaseUnlockKeepsOwner(a) ==
    /\ pc[a] = "unlock"
    /\ last_acquire_time' = [last_acquire_time EXCEPT ![lk[a]] = 0]
    /\ rawLocked' = [rawLocked EXCEPT ![lk[a]] = FALSE]
    /\ pc' = [pc EXCEPT ![a] = ret[a]]
    /\ held' = HeldAfter(a, lk[a], -1)
    /\ lk' = [lk EXCEPT ![a] = L]
    /\ ret' = [ret EXCEPT ![a] = "idle"]
    /\ exc' = [exc EXCEPT ![a] = "idle"]
    /\ UNCHANGED <<owner, locked_count, waiting_threads, deadline, now, condVars, evVars,
                   restVars>>

ReleaseUnlock(a) ==
    /\ pc[a] = "unlock"
    /\ owner' = [owner EXCEPT ![lk[a]] = None]
    /\ last_acquire_time' = [last_acquire_time EXCEPT ![lk[a]] = 0]
    /\ rawLocked' = [rawLocked EXCEPT ![lk[a]] = FALSE]
    /\ pc' = [pc EXCEPT ![a] = ret[a]]
    /\ held' = HeldAfter(a, lk[a], -1)
    /\ lk' = [lk EXCEPT ![a] = L]
    /\ ret' = [ret EXCEPT ![a] = "idle"]
    /\ exc' = [exc EXCEPT ![a] = "idle"]
    /\ UNCHANGED <<locked_count, waiting_threads, deadline, now, condVars, evVars, restVars>>

\* every step inside a Lock.acquire / Lock.release call in progress
LockStep(a) ==
    \/ AcquireRaw(a)
    \/ AcquireSetOwner(a)
    \/ AcquireSetCount(a)
    \/ AcquireStamp(a)
    \/ AcquireFinally(a)
    \/ ReleaseUnlock(a)

\* utime.ticks_ms() advances
Tick ==
    /\ now < MaxTime
    /\ now' = now + 1
    /\ UNCHANGED <<lockVars, ctlVars, held, condVars, evVars, restVars>>

\* ------------------------------------------- threads using one Lock ------
\* a thread is between two calls:
\*   "idle"      the last call returned (or there was none yet)
\*   "deadlock"  the last call raised "Potential deadlock detected" (line 92)
\*   "unowned"   the last call raised "cannot release un-owned lock" (line 118)
\*   "unheld"    the last call raised "cannot wait / notify on un-acquired
\*               lock" (lines 216, 255)
\*   "failed"    the last call raised after Condition.wait had raised in it
\*   "closed"    submit raised RuntimeError("cannot schedule new futures
\*               after shutdown") (line 854)
\*   "typeerror" submit raised the TypeError of the call of line 867
Ready(t) == pc[t] \in {"idle", "deadlock", "unowned", "unheld", "failed", "toomany",
                        "full", "empty", "already", "nothread", "notstarted",
                        "notready", "timeout", "reraised", "closed", "typeerror"}

\* a thread calls lock.acquire(timeout) (line 69)
CallAcquire(t, timeout) ==
    /\ Ready(t)
    /\ owner[L] = t => locked_count[L] < MaxDepth
    /\ timeout # NoTimeout => now + timeout <= MaxTime
    /\ AcquireEnter(t, L, "idle", "deadlock", timeout)
    /\ UNCHANGED <<condVars, evVars, restVars>>

\* a thread calls lock.release() (line 111)
CallRelease(t) ==
    /\ Ready(t)
    /\ ReleaseEnter(t, L, "idle", "unowned")
    /\ UNCHANGED <<condVars, evVars, restVars>>

\* Condition.__init__ (lines 198-202); no _Waiter exists yet
CondInit ==
    /\ waiters = <<>>
    /\ waiters_ne = <<>>
    /\ nwaiters = 0
    /\ wgotit = [w \in WaiterIds |-> TRUE]
    /\ wtimer = [w \in WaiterIds |-> FALSE]
    /\ armed = [w \in WaiterIds |-> FALSE]
    /\ expiry = [w \in WaiterIds |-> 0]
    /\ myw = [t \in Threads |-> None]
    /\ wtmo = [t \in Threads |-> NoTimeout]
    /\ gotit = [t \in Threads |-> TRUE]
    /\ notified = {}

\* Event.__init__ (lines 277-279); no Event.wait is in progress
EventInit ==
    /\ flag = FALSE
    /\ eop = [t \in Threads |-> "none"]
    /\ eclear = [t \in Threads |-> FALSE]
    /\ etmo = [t \in Threads |-> NoTimeout]
    /\ eend = [t \in Threads |-> 0]

\* Semaphore.__init__ (lines 348-352) and BoundedSemaphore.__init__ (lines
\* 395-397) with the argument value = v; no release is in progress
SemInit(v) ==
    /\ value = v
    /\ initial_value = v
    /\ sarg = [t \in Threads |-> 0]
    /\ sacq = 0
    /\ srel = 0

\* Queue.__init__ (lines 417-422) of an object of class k with max_size = c
QueueInit(k, c) ==
    /\ queue = <<>>
    /\ qkind = k
    /\ max_size = c
    /\ qitem = [t \in Threads |-> 0]

\* the list the heap functions work on, empty
HeapInit ==
    /\ heap = <<>>
    /\ hret = 0

\* Thread.DEFAULT_STACK_SIZE (line 528): what _thread.stack_size() returned
\* when the module was loaded; 0 stands for that value
DEFAULT_STACK_SIZE == 0

\* Thread.__init__ (lines 530-536)
ThreadInit ==
    /\ started = FALSE
    /\ spawned = 0
    /\ ident = None
    /\ stack_size = DEFAULT_STACK_SIZE
    /\ starg = [t \in Threads |-> None]
    /\ newid = [t \in Threads |-> None]
    /\ bout = [b \in BootThreads |-> "none"]

\* _Result.__init__ (lines 594-597); no set or get is in progress
ResultInit ==
    /\ rexc = None
    /\ rrv = None
    /\ gret = [t \in Threads |-> None]

\* a time field that holds None
NoTime == -1

\* AsyncTask.__init__ (lines 665-675); no _Result and no Thread exists yet
TaskInit ==
    /\ status = "PENDING"
    /\ tresult = 0
    /\ tthread = 0
    /\ terror = None
    /\ start_time = NoTime
    /\ end_time = NoTime
    /\ results = [k \in 1..MaxBoot |-> <<FALSE, None, None>>]
    /\ tident = [k \in 1..MaxBoot |-> None]
    /\ tstopped = [k \in 1..MaxBoot |-> FALSE]
    /\ brv = [b \in BootThreads |-> None]
    /\ berr = [b \in BootThreads |-> None]
    /\ ran = 0
    /\ cpend = FALSE

\* ThreadPoolExecutor.__init__ (lines 819-837) with max_workers = n; the
\* work queue of line 834 is the Queue of QueueInit
PoolInit(n) ==
    /\ max_workers = n
    /\ pshutdown = FALSE
    /\ threads = <<>>
    /\ nresult = 0
    /\ work_result = <<>>
    /\ finished = {}
    /\ pop = [t \in Threads |-> "none"]
    /\ pwork = [t \in Threads |-> 0]
    /\ presult = [t \in Threads |-> 0]
    /\ pwait = [t \in Threads |-> FALSE]
    /\ sseen = [t \in Threads |-> {}]
    /\ sdone = [t \in Threads |-> FALSE]
    /\ given = <<>>
    /\ shutret = FALSE
    /\ wtask = None
    /\ wout = <<>>
    /\ rstore = <<>>
    /\ wdone = {}

AppInit ==
    /\ ResultInit
    /\ TaskInit
    /\ PoolInit(1)

\* the objects every specification shares: the locks, one Condition, one
\* Event, the threads between calls
BaseInit ==
    /\ LockInit
    /\ CtlInit
    /\ CondInit
    /\ EventInit
    /\ held = [t \in Threads |-> 0]
    /\ now = 0

\* with a Semaphore and a Queue built with the default of value
\* (line 348); a Queue of MaxSize slots stands for the default max_size
Init ==
    /\ BaseInit
    /\ SemInit(1)
    /\ QueueInit("fifo", MaxSize)
    /\ HeapInit
    /\ ThreadInit
    /\ AppInit

Next ==
    \/ \E t \in Threads, timeout \in Timeouts : CallAcquire(t, timeout)
    \/ \E t \in Threads : CallRelease(t)
    \/ \E t \in Threads : LockStep(t)
    \/ Tick

Spec == Init /\ [][Next]_vars

\* The scheduler is preemptive and fair to every thread that can take a
\* step of the call it is in, and the clock advances; whether and when a
\* thread calls acquire or release is the application's choice.
LiveSpec == Spec /\ (\A t \in Threads : WF_vars(LockStep(t))) /\ WF_vars(Tick)

\* -------------------------------------------- _Waiter and Condition ------
\* Condition.__is_owned (lines 211-212)
\* mutant: the owner is not compared with the caller
MutIsOwnedAnyHolder(t) == rawLocked[L]

is_owned(t) == rawLocked[L] /\ owner[L] = t

WaiterOf(c) == c - NThreads

\* Condition.wait, lines 215-219.  Without the lock: RuntimeError.  With
\* it: a _Waiter is created (lines 144-149: its Lock is new, so the
\* acquire of line 146 makes the creating thread its owner at depth 1
\* without contention) and appended to the waiter sequence.  The stamp
\* that line 105 leaves on the gate is not recorded: it is read only by
\* the heuristic of a caller that is not the owner, and nobody but the
\* owner ever calls acquire on a gate.
WaitEnter(t, timeout) ==
    /\ is_owned(t) => nwaiters < MaxWaiters
    /\ IF ~is_owned(t)
       THEN /\ pc' = [pc EXCEPT ![t] = "unheld"]
            /\ UNCHANGED <<lockVars, condVars>>
       ELSE LET w == nwaiters + 1 IN
            /\ nwaiters' = w
            /\ owner' = [owner EXCEPT ![WLock(w)] = t]
            /\ locked_count' = [locked_count EXCEPT ![WLock(w)] = 1]
            /\ rawLocked' = [rawLocked EXCEPT ![WLock(w)] = TRUE]
            /\ IF eop[t] = "get"
               THEN waiters_ne' = Append(waiters_ne, w) /\ UNCHANGED waiters
               ELSE waiters' = Append(waiters, w) /\ UNCHANGED waiters_ne
            /\ myw' = [myw EXCEPT ![t] = w]
            /\ wtmo' = [wtmo EXCEPT ![t] = timeout]
            /\ gotit' = [gotit EXCEPT ![t] = TRUE]
            /\ pc' = [pc EXCEPT ![t] = "w_rel"]
            /\ UNCHANGED <<waiting_threads, last_acquire_time, wgotit, wtimer, armed,
                           expiry, notified>>
    /\ UNCHANGED <<lk, ret, exc, deadline, held, now>>

\* a thread calls cond.wait(timeout)
CallWait(t, timeout) ==
    /\ Ready(t)
    /\ timeout # NoTimeout => now + timeout <= MaxTime
    /\ timeout # NoTimeout => nwaiters < MaxTimers
    /\ WaitEnter(t, timeout)
    /\ UNCHANGED <<evVars, restVars>>

\* line 220: self.release()
WaitRelease(t) ==
    /\ pc[t] = "w_rel"
    /\ ReleaseEnter(t, L, IF wtmo[t] = NoTimeout THEN "w_gate" ELSE "w_arm", "unowned")
    /\ UNCHANGED <<condVars, evVars, restVars>>

\* _Waiter.acquire, lines 163-167, with a timeout: the timer lock is taken
\* (no timer of this waiter exists before line 166, so nothing contends)
\* and the one-shot osTimer is started
WaitArmTimer(t) ==
    /\ pc[t] = "w_arm"
    /\ LET w == myw[t] IN
        /\ owner' = [owner EXCEPT ![TLock(w)] = t]
        /\ locked_count' = [locked_count EXCEPT ![TLock(w)] = 1]
        /\ rawLocked' = [rawLocked EXCEPT ![TLock(w)] = TRUE]
        /\ last_acquire_time' = [last_acquire_time EXCEPT ![TLock(w)] = now]
        /\ wtimer' = [wtimer EXCEPT ![w] = TRUE]
        /\ armed' = [armed EXCEPT ![w] = TRUE]
        /\ expiry' = [expiry EXCEPT ![w] = now + wtmo[t]]
    /\ pc' = [pc EXCEPT ![t] = "w_armed"]
    /\ UNCHANGED <<waiting_threads, lk, ret, exc, deadline, held, now,
                   waiters, waiters_ne, nwaiters, wgotit, myw, wtmo, gotit, notified, evVars, restVars>>

\* the end of the with block of line 164
WaitArmExit(t) ==
    /\ pc[t] = "w_armed"
    /\ ReleaseEnter(t, TLock(myw[t]), "w_gate", "unowned")
    /\ UNCHANGED <<condVars, evVars, restVars>>

\* lines 162 and 169: the gate.  self.__lock is a reentrant Lock whose owner
\* is the thread that created the waiter, and that thread is the caller.
WaitGate(t) ==
    /\ pc[t] = "w_gate"
    /\ AcquireEnter(t, WLock(myw[t]), IF wtmo[t] = NoTimeout THEN "w_fin" ELSE "w_tl",
                    "w_exc", NoTimeout)
    /\ gotit' = [gotit EXCEPT ![t] = wgotit[myw[t]]]
    /\ UNCHANGED <<waiters, waiters_ne, nwaiters, wgotit, wtimer, armed, expiry, myw, wtmo, notified,
                   evVars, restVars>>

\* line 172: with self.__timer_lock
WaitTimerLock(t) ==
    /\ pc[t] = "w_tl"
    /\ AcquireEnter(t, TLock(myw[t]), "w_read", "w_exc", NoTimeout)
    /\ UNCHANGED <<condVars, evVars, restVars>>

\* lines 173-176
WaitReadGotit(t) ==
    /\ pc[t] = "w_read"
    /\ gotit' = [gotit EXCEPT ![t] = wgotit[myw[t]]]
    /\ armed' = [armed EXCEPT ![myw[t]] = FALSE]
    /\ wtimer' = [wtimer EXCEPT ![myw[t]] = FALSE]
    /\ pc' = [pc EXCEPT ![t] = "w_read_x"]
    /\ UNCHANGED <<lockVars, lk, ret, exc, deadline, held, now,
                   waiters, waiters_ne, nwaiters, wgotit, expiry, myw, wtmo, notified, evVars, restVars>>

\* the end of the with block of line 172
WaitReadExit(t) ==
    /\ pc[t] = "w_read_x"
    /\ ReleaseEnter(t, TLock(myw[t]), "w_fin", "unowned")
    /\ UNCHANGED <<condVars, evVars, restVars>>

\* line 226: the finally clause re-acquires the backing lock
\* mutant: wait goes on without the backing lock
MutWaitReacquireSkipped(t) ==
    /\ pc[t] = "w_fin"
    /\ pc' = [pc EXCEPT ![t] = "w_rm"]
    /\ UNCHANGED <<lockVars, lk, ret, exc, deadline, held, now, condVars, evVars, restVars>>

WaitReacquire(t) ==
    /\ pc[t] = "w_fin"
    /\ AcquireEnter(t, L, "w_rm", "w_fin_x", NoTimeout)
    /\ UNCHANGED <<condVars, evVars, restVars>>

\* lines 224 and 227-232: a waiter that reports False is removed; wait
\* returns gotit, to Condition.wait_for when the call came from there
WaitReturn(t) ==
    /\ pc[t] = "w_rm"
    /\ waiters' = IF gotit[t] THEN waiters
                  ELSE SelectSeq(waiters, LAMBDA x : x # myw[t])
    /\ waiters_ne' = IF gotit[t] THEN waiters_ne
                     ELSE SelectSeq(waiters_ne, LAMBDA x : x # myw[t])
    /\ pc' = [pc EXCEPT ![t] = IF eop[t] # "none" THEN "e_chk" ELSE "idle"]
    /\ myw' = [myw EXCEPT ![t] = None]
    /\ wtmo' = [wtmo EXCEPT ![t] = NoTimeout]
    /\ notified' = notified \ {myw[t]}
    /\ UNCHANGED <<lockVars, lk, ret, exc, deadline, held, now,
                   nwaiters, wgotit, wtimer, armed, expiry, gotit, evVars, restVars>>

\* waiter.acquire raised (the heuristic fired on the timer lock): the
\* finally clause re-acquires the backing lock (line 226) and line 227
\* reads the unbound local gotit, so wait raises
WaitRaise(t) ==
    /\ pc[t] = "w_exc"
    /\ AcquireEnter(t, L, "w_exc2", "w_fin_x", NoTimeout)
    /\ UNCHANGED <<condVars, evVars, restVars>>

\* the exception leaves wait: with the backing lock ("failed") or, when
\* line 226 raised, without it ("deadlock"); inside Event.wait it goes on
\* to the __exit__ of the with block of line 282
WaitRaised(t) ==
    /\ pc[t] \in {"w_exc2", "w_fin_x"}
    /\ pc' = [pc EXCEPT ![t] = IF eop[t] # "none" THEN "e_exit_x"
                               ELSE IF pc[t] = "w_exc2" THEN "failed" ELSE "deadlock"]
    /\ myw' = [myw EXCEPT ![t] = None]
    /\ wtmo' = [wtmo EXCEPT ![t] = NoTimeout]
    /\ notified' = notified \ {myw[t]}
    /\ UNCHANGED <<lockVars, lk, ret, exc, deadline, held, now,
                   waiters, waiters_ne, nwaiters, wgotit, wtimer, armed, expiry, gotit, evVars, restVars>>

\* the osTimer of waiter w fires and its callback __auto_release starts, in
\* a context of its own: line 152, with self.__timer_lock
TimerFire(w) ==
    /\ armed[w]
    /\ now >= expiry[w]
    /\ pc[TimerOf(w)] = "idle"
    /\ armed' = [armed EXCEPT ![w] = FALSE]
    /\ AcquireEnter(TimerOf(w), TLock(w), "t_rel", "idle", NoTimeout)
    /\ UNCHANGED <<waiters, waiters_ne, nwaiters, wgotit, wtimer, expiry, myw, wtmo, gotit,
                   notified, evVars, restVars>>

\* line 153, self.__release() (lines 180-185): Lock.release on the gate
TimerRelease(c) ==
    /\ pc[c] = "t_rel"
    /\ ReleaseEnter(c, WLock(WaiterOf(c)), "t_ok", "t_err")
    /\ UNCHANGED <<condVars, evVars, restVars>>

\* lines 153-156: gotit = not released; the timer is stopped and dropped
TimerStore(c) ==
    /\ pc[c] \in {"t_ok", "t_err"}
    /\ wgotit' = [wgotit EXCEPT ![WaiterOf(c)] = (pc[c] = "t_err")]
    /\ wtimer' = [wtimer EXCEPT ![WaiterOf(c)] = FALSE]
    /\ armed' = [armed EXCEPT ![WaiterOf(c)] = FALSE]
    /\ pc' = [pc EXCEPT ![c] = "t_exit"]
    /\ UNCHANGED <<lockVars, lk, ret, exc, deadline, held, now,
                   waiters, waiters_ne, nwaiters, expiry, myw, wtmo, gotit, notified, evVars, restVars>>

\* the end of the with block of line 152
TimerExit(c) ==
    /\ pc[c] = "t_exit"
    /\ ReleaseEnter(c, TLock(WaiterOf(c)), "idle", "idle")
    /\ UNCHANGED <<condVars, evVars, restVars>>

Min(x, y) == IF x < y THEN x ELSE y

\* the gates among the waiters S that a release by thread t opens: the
\* gates t owns at depth 1 (Lock.release, lines 117-124); on any other
\* gate of S the release raises and _Waiter.__release returns False
OpenedBy(t, S) == {w \in S : owner[WLock(w)] = t /\ locked_count[WLock(w)] = 1}

\* the gates among S whose depth a release by thread t lowers
LoweredBy(t, S) == {w \in S : owner[WLock(w)] = t}

\* the waiters notify(n) selects, line 260: self.__waiters[:n]
Selected(n) ==
    LET k == Min(IF n < 0 THEN 0 ELSE n, Len(waiters))
    IN  {waiters[i] : i \in 1..k}

\* Condition.notify, lines 257-269, called by the owner t of the backing
\* lock: every selected waiter is released (line 262) and removed (line
\* 264).  The caller holds the backing lock, so no other thread changes the
\* sequence meanwhile, and a gate is written only by its owner.
NotifySelected(t, sel) ==
    /\ locked_count' = [l \in LockIds |->
            IF \E w \in LoweredBy(t, sel) : l = WLock(w)
            THEN locked_count[l] - 1 ELSE locked_count[l]]
    /\ owner' = [l \in LockIds |->
            IF \E w \in OpenedBy(t, sel) : l = WLock(w) THEN None ELSE owner[l]]
    /\ rawLocked' = [l \in LockIds |->
            IF \E w \in OpenedBy(t, sel) : l = WLock(w) THEN FALSE ELSE rawLocked[l]]
    /\ notified' = notified \cup {w \in sel : \E u \in Threads : myw[u] = w}
    /\ UNCHANGED <<waiting_threads, last_acquire_time, nwaiters, wgotit, wtimer,
                   armed, expiry, myw, wtmo, gotit>>

\* notify(n) on the Condition whose waiters are in the variable waiters
NotifyBody(t, n) ==
    /\ NotifySelected(t, Selected(n))
    /\ waiters' = SelectSeq(waiters, LAMBDA x : x \notin Selected(n))
    /\ UNCHANGED waiters_ne

\* notify(n) on Queue.__not_empty
NotifyNotEmpty(t, n) ==
    LET k == Min(IF n < 0 THEN 0 ELSE n, Len(waiters_ne))
        sel == {waiters_ne[i] : i \in 1..k}
    IN  /\ NotifySelected(t, sel)
        /\ waiters_ne' = SelectSeq(waiters_ne, LAMBDA x : x \notin sel)
        /\ UNCHANGED waiters

\* a thread calls cond.notify(n) (lines 253-256)
CallNotify(t, n) ==
    /\ Ready(t)
    /\ IF ~is_owned(t)
       THEN /\ pc' = [pc EXCEPT ![t] = "unheld"]
            /\ UNCHANGED <<lockVars, condVars>>
       ELSE /\ NotifyBody(t, n)
            /\ pc' = [pc EXCEPT ![t] = "idle"]
    /\ UNCHANGED <<lk, ret, exc, deadline, held, now, evVars, restVars>>

\* a thread calls cond.notify_all() (lines 271-272)
CallNotifyAll(t) == CallNotify(t, Len(waiters))

NotifyArgs == (-1)..(MaxWaiters + 1)

\* every step inside a Condition.wait call in progress
WaitStep(t) ==
    \/ WaitRelease(t)
    \/ WaitArmTimer(t)
    \/ WaitArmExit(t)
    \/ WaitGate(t)
    \/ WaitTimerLock(t)
    \/ WaitReadGotit(t)
    \/ WaitReadExit(t)
    \/ WaitReacquire(t)
    \/ WaitReturn(t)
    \/ WaitRaise(t)
    \/ WaitRaised(t)

\* every step of the timer callback of waiter w
TimerStep(w) ==
    \/ TimerFire(w)
    \/ LockStep(TimerOf(w))
    \/ TimerRelease(TimerOf(w))
    \/ TimerStore(TimerOf(w))
    \/ TimerExit(TimerOf(w))

\* threads using one Condition: acquire and release are the backing
\* lock's (lines 201-202)
NextCond ==
    \/ \E t \in Threads : CallAcquire(t, NoTimeout)
    \/ \E t \in Threads : CallRelease(t)
    \/ \E t \in Threads, timeout \in Timeouts : CallWait(t, timeout)
    \/ \E t \in Threads, n \in NotifyArgs : CallNotify(t, n)
    \/ \E t \in Threads : CallNotifyAll(t)
    \/ \E t \in Threads : LockStep(t)
    \/ \E t \in Threads : WaitStep(t)
    \/ \E w \in WaiterIds : TimerStep(w)
    \/ Tick

SpecCond == Init /\ [][NextCond]_vars

\* ------------------------------------------------------------ Event ------
\* a thread calls event.wait(timeout, clear): line 282, with self.__cond
CallEventWait(t, timeout, clr) ==
    /\ Ready(t)
    /\ timeout # NoTimeout => now + timeout <= MaxTime
    /\ AcquireEnter(t, L, "e_pred", "deadlock", NoTimeout)
    /\ IF pc'[t] = "deadlock"
       THEN UNCHANGED <<eop, eclear, etmo>>
       ELSE /\ eop' = [eop EXCEPT ![t] = "wait"]
            /\ eclear' = [eclear EXCEPT ![t] = clr]
            /\ etmo' = [etmo EXCEPT ![t] = timeout]
    /\ UNCHANGED <<condVars, flag, eend, restVars>>

\* the predicate the call in progress hands to Condition.wait_for: lines
\* 283 (Event.wait, also when _Result.get called it at line 635), 378
\* (Semaphore.acquire), 435-436 (Queue.put) and 454-455 (Queue.get)
Predicate(t) ==
    CASE eop[t] \in {"wait", "rget"} -> flag
      [] eop[t] = "sacq" -> value > 0
      [] eop[t] = "put" -> Len(queue) < max_size
      [] eop[t] = "get" -> Len(queue) > 0
      [] OTHER -> FALSE

\* Condition.wait_for, lines 235-240: the predicate holds already, or
\* end_time is computed
EventPredicate(t) ==
    /\ pc[t] = "e_pred"
    /\ IF Predicate(t)
       THEN /\ pc' = [pc EXCEPT ![t] = "e_ret_t"]
            /\ UNCHANGED eend
       ELSE /\ pc' = [pc EXCEPT ![t] = "e_loop"]
            /\ eend' = [eend EXCEPT ![t] = IF etmo[t] = NoTimeout THEN 0 ELSE now + etmo[t]]
    /\ etmo' = [etmo EXCEPT ![t] = NoTimeout]
    /\ UNCHANGED <<lockVars, lk, ret, exc, deadline, held, now, condVars, flag, eop, eclear,
                   restVars>>

\* Condition.wait_for, lines 242-249: out of time, or one more self.wait
EventLoop(t) ==
    /\ pc[t] = "e_loop"
    /\ IF eend[t] # 0 /\ eend[t] - now <= 0
       THEN /\ pc' = [pc EXCEPT ![t] = "e_ret_f"]
            /\ UNCHANGED <<lockVars, lk, ret, exc, deadline, held, now, condVars>>
       ELSE /\ eend[t] # 0 => nwaiters < MaxTimers
            /\ WaitEnter(t, IF eend[t] = 0 THEN NoTimeout ELSE eend[t] - now)
    /\ UNCHANGED <<evVars, restVars>>

\* lines 247 and 249: result = self.wait(...) and predicate()
EventCheck(t) ==
    /\ pc[t] = "e_chk"
    /\ pc' = [pc EXCEPT ![t] = IF gotit[t] /\ Predicate(t) THEN "e_ret_t" ELSE "e_loop"]
    /\ UNCHANGED <<lockVars, lk, ret, exc, deadline, held, now, condVars, evVars, restVars>>

\* lines 284-286 and the end of the with block of line 282: a successful
\* wait with clear consumes the flag; the lock is released; wait returns
\* mutant: the flag is left as it is
MutEventReturnKeepsFlag(t) ==
    /\ pc[t] \in {"e_ret_t", "e_ret_f"}
    /\ eop[t] = "wait"
    /\ eop' = [eop EXCEPT ![t] = "none"]
    /\ eclear' = [eclear EXCEPT ![t] = FALSE]
    /\ eend' = [eend EXCEPT ![t] = 0]
    /\ ReleaseEnter(t, L, "idle", "unowned")
    /\ UNCHANGED <<condVars, flag, etmo, restVars>>

EventReturn(t) ==
    /\ pc[t] \in {"e_ret_t", "e_ret_f"}
    /\ eop[t] = "wait"
    /\ flag' = IF pc[t] = "e_ret_t" /\ eclear[t] THEN FALSE ELSE flag
    /\ eop' = [eop EXCEPT ![t] = "none"]
    /\ eclear' = [eclear EXCEPT ![t] = FALSE]
    /\ eend' = [eend EXCEPT ![t] = 0]
    /\ ReleaseEnter(t, L, "idle", "unowned")
    /\ UNCHANGED <<condVars, etmo, restVars>>

\* self.wait raised inside the with block of line 282 (or of lines 366,
\* 428, 447 in Semaphore.acquire, Queue.put, Queue.get): __exit__ releases
\* the lock, or raises in its turn when the thread does not own it, and
\* the call raises
EventRaise(t) ==
    /\ pc[t] = "e_exit_x"
    /\ eop' = [eop EXCEPT ![t] = "none"]
    /\ eclear' = [eclear EXCEPT ![t] = FALSE]
    /\ eend' = [eend EXCEPT ![t] = 0]
    /\ ReleaseEnter(t, L, "failed", "unowned")
    /\ UNCHANGED <<condVars, flag, etmo, restVars>>

\* a thread calls event.set(): line 289, with self.__cond
CallEventSet(t) ==
    /\ Ready(t)
    /\ AcquireEnter(t, L, "s_set", "deadlock", NoTimeout)
    /\ UNCHANGED <<condVars, evVars, restVars>>

\* lines 290-291: the flag is set and every waiter is notified
EventSetFlag(t) ==
    /\ pc[t] = "s_set"
    /\ flag' = TRUE
    /\ NotifyBody(t, Len(waiters))
    /\ pc' = [pc EXCEPT ![t] = "s_rel"]
    /\ UNCHANGED <<lk, ret, exc, deadline, held, now, eop, eclear, etmo, eend, restVars>>

\* the end of the with block of line 289
EventSetExit(t) ==
    /\ pc[t] = "s_rel"
    /\ ReleaseEnter(t, L, "idle", "unowned")
    /\ UNCHANGED <<condVars, evVars, restVars>>

\* a thread calls event.clear(): line 294, with self.__cond
CallEventClear(t) ==
    /\ Ready(t)
    /\ AcquireEnter(t, L, "c_clr", "deadlock", NoTimeout)
    /\ UNCHANGED <<condVars, evVars, restVars>>

\* line 295 and the end of the with block of line 294
EventClearFlag(t) ==
    /\ pc[t] = "c_clr"
    /\ flag' = FALSE
    /\ ReleaseEnter(t, L, "idle", "unowned")
    /\ UNCHANGED <<condVars, eop, eclear, etmo, eend, restVars>>

\* every step inside an Event call in progress
EventStep(t) ==
    \/ EventPredicate(t)
    \/ EventLoop(t)
    \/ EventCheck(t)
    \/ EventReturn(t)
    \/ EventRaise(t)
    \/ EventSetFlag(t)
    \/ EventSetExit(t)
    \/ EventClearFlag(t)

\* threads using one Event
NextEvent ==
    \/ \E t \in Threads, timeout \in Timeouts, clr \in BOOLEAN : CallEventWait(t, timeout, clr)
    \/ \E t \in Threads : CallEventSet(t)
    \/ \E t \in Threads : CallEventClear(t)
    \/ \E t \in Threads : EventStep(t)
    \/ \E t \in Threads : LockStep(t)
    \/ \E t \in Threads : WaitStep(t)
    \/ \E w \in WaiterIds : TimerStep(w)
    \/ Tick

SpecEvent == Init /\ [][NextEvent]_vars

\* the steps of Condition.wait_for and of the with block around it, for
\* whichever call is in progress
WaitForStep(t) ==
    \/ EventPredicate(t)
    \/ EventLoop(t)
    \/ EventCheck(t)
    \/ EventRaise(t)

\* the steps inside a Condition.wait without timeout
UntimedWaitStep(t) ==
    \/ WaitRelease(t)
    \/ WaitGate(t)
    \/ WaitReacquire(t)
    \/ WaitReturn(t)
    \/ WaitRaised(t)

\* -------------------------------------- Semaphore, BoundedSemaphore ------
\* a thread calls sem.acquire(block, timeout): line 366, with self.__cond.
\* A blocking call goes on to lines 373-378, wait_for(value > 0).
CallSemAcquire(t, block, timeout) ==
    /\ Ready(t)
    /\ timeout # NoTimeout => (block /\ now + timeout <= MaxTime)
    /\ AcquireEnter(t, L, IF block THEN "e_pred" ELSE "sa_nb", "deadlock", NoTimeout)
    /\ IF pc'[t] = "deadlock" \/ ~block
       THEN UNCHANGED <<eop, etmo>>
       ELSE /\ eop' = [eop EXCEPT ![t] = "sacq"]
            /\ etmo' = [etmo EXCEPT ![t] = timeout]
    /\ UNCHANGED <<condVars, flag, eclear, eend, restVars>>

\* lines 367-371 and the end of the with block: the non-blocking acquire
\* mutant: the count is not tested
MutSemAcquireNonBlockingUnchecked(t) ==
    /\ pc[t] = "sa_nb"
    /\ value' = value - 1 /\ sacq' = sacq + 1
    /\ ReleaseEnter(t, L, "idle", "unowned")
    /\ UNCHANGED <<condVars, evVars, initial_value, sarg, srel, qVars, heapVars, thVars, appVars>>

SemAcquireNonBlocking(t) ==
    /\ pc[t] = "sa_nb"
    /\ IF value > 0
       THEN value' = value - 1 /\ sacq' = sacq + 1
       ELSE UNCHANGED <<value, sacq>>
    /\ ReleaseEnter(t, L, "idle", "unowned")
    /\ UNCHANGED <<condVars, evVars, initial_value, sarg, srel, qVars, heapVars, thVars, appVars>>

\* lines 378-381 and the end of the with block: the blocking acquire takes
\* a permit when wait_for returned True
SemAcquireReturn(t) ==
    /\ pc[t] \in {"e_ret_t", "e_ret_f"}
    /\ eop[t] = "sacq"
    /\ IF pc[t] = "e_ret_t"
       THEN value' = value - 1 /\ sacq' = sacq + 1
       ELSE UNCHANGED <<value, sacq>>
    /\ eop' = [eop EXCEPT ![t] = "none"]
    /\ eend' = [eend EXCEPT ![t] = 0]
    /\ ReleaseEnter(t, L, "idle", "unowned")
    /\ UNCHANGED <<condVars, flag, eclear, etmo, initial_value, sarg, srel,
                   qVars, heapVars, thVars, appVars>>

\* the entry of release(n), lines 382-384 and 400-402: ValueError for
\* n < 1, else with self.__cond, going on at the place body
ReleaseCall(t, n, body) ==
    /\ Ready(t)
    /\ srel + n <= MaxRelease
    /\ IF n < 1
       THEN /\ pc' = [pc EXCEPT ![t] = "failed"]
            /\ UNCHANGED <<lockVars, lk, ret, exc, deadline, held, now, sarg>>
       ELSE /\ AcquireEnter(t, L, body, "deadlock", NoTimeout)
            /\ sarg' = IF pc'[t] = "deadlock" THEN sarg ELSE [sarg EXCEPT ![t] = n]
    /\ UNCHANGED <<condVars, evVars, value, initial_value, sacq, srel, qVars, heapVars, thVars, appVars>>

\* a thread calls release(n) on a Semaphore
CallSemRelease(t, n) == ReleaseCall(t, n, "sr_add")

\* lines 385-386: the count grows by n and n waiters are notified
SemReleaseAdd(t) ==
    /\ pc[t] = "sr_add"
    /\ value' = value + sarg[t]
    /\ srel' = srel + sarg[t]
    /\ NotifyBody(t, sarg[t])
    /\ sarg' = [sarg EXCEPT ![t] = 0]
    /\ pc' = [pc EXCEPT ![t] = "sr_rel"]
    /\ UNCHANGED <<lk, ret, exc, deadline, held, now, evVars, initial_value, sacq,
                   qVars, heapVars, thVars, appVars>>

\* the end of the with block of line 384 (or 402)
SemReleaseExit(t) ==
    /\ pc[t] = "sr_rel"
    /\ ReleaseEnter(t, L, "idle", "unowned")
    /\ UNCHANGED <<condVars, evVars, restVars>>

\* a thread calls sem.clear(): line 389, with self.__cond
CallSemClear(t) ==
    /\ Ready(t)
    /\ AcquireEnter(t, L, "sc_clr", "deadlock", NoTimeout)
    /\ UNCHANGED <<condVars, evVars, restVars>>

\* line 390 and the end of the with block of line 389
SemClearValue(t) ==
    /\ pc[t] = "sc_clr"
    /\ value' = 0
    /\ ReleaseEnter(t, L, "idle", "unowned")
    /\ UNCHANGED <<condVars, evVars, initial_value, sarg, sacq, srel, qVars, heapVars, thVars, appVars>>

\* a thread calls release(n) on a BoundedSemaphore.  The code runs on
\* MicroPython, which does not mangle the names of private members: the
\* self.__cond and self.__value of lines 402-406 are the attributes that
\* Semaphore.__init__ set.
CallBSemRelease(t, n) == ReleaseCall(t, n, "br_add")

\* lines 403-406: over the ceiling the call raises ValueError out of the
\* with block, whose __exit__ releases the lock; else as Semaphore.release
\* mutant: the ceiling is not tested
MutBSemReleaseAddUnchecked(t) ==
    /\ pc[t] = "br_add"
    /\ value' = value + sarg[t]
    /\ srel' = srel + sarg[t]
    /\ NotifyBody(t, sarg[t])
    /\ pc' = [pc EXCEPT ![t] = "sr_rel"]
    /\ sarg' = [sarg EXCEPT ![t] = 0]
    /\ UNCHANGED <<lk, ret, exc, deadline, held, now>>
    /\ UNCHANGED <<evVars, initial_value, sacq, qVars, heapVars, thVars, appVars>>

BSemReleaseAdd(t) ==
    /\ pc[t] = "br_add"
    /\ IF value + sarg[t] > initial_value
       THEN /\ ReleaseEnter(t, L, "toomany", "unowned")
            /\ UNCHANGED <<condVars, value, srel>>
       ELSE /\ value' = value + sarg[t]
            /\ srel' = srel + sarg[t]
            /\ NotifyBody(t, sarg[t])
            /\ pc' = [pc EXCEPT ![t] = "sr_rel"]
            /\ UNCHANGED <<lk, ret, exc, deadline, held, now>>
    /\ sarg' = [sarg EXCEPT ![t] = 0]
    /\ UNCHANGED <<evVars, initial_value, sacq, qVars, heapVars, thVars, appVars>>

ReleaseArgs == 0..MaxRelease

\* a Semaphore built with any value in 0..MaxValue
InitSem ==
    /\ BaseInit
    /\ \E v \in 0..MaxValue : SemInit(v)
    /\ QueueInit("fifo", MaxSize)
    /\ HeapInit
    /\ ThreadInit
    /\ AppInit

\* threads using one Semaphore
NextSem ==
    \/ \E t \in Threads, block \in BOOLEAN : CallSemAcquire(t, block, NoTimeout)
    \/ \E t \in Threads, n \in ReleaseArgs : CallSemRelease(t, n)
    \/ \E t \in Threads : CallSemClear(t)
    \/ \E t \in Threads : SemAcquireNonBlocking(t)
    \/ \E t \in Threads : SemAcquireReturn(t)
    \/ \E t \in Threads : SemReleaseAdd(t)
    \/ \E t \in Threads : SemReleaseExit(t)
    \/ \E t \in Threads : SemClearValue(t)
    \/ \E t \in Threads : WaitForStep(t)
    \/ \E t \in Threads : LockStep(t)
    \/ \E t \in Threads : UntimedWaitStep(t)

\* acquire is called without timeout, so no timer runs, and the clock
\* stands still: the staleness test of line 65 stays out of play
SpecSem == InitSem /\ [][NextSem]_vars

\* threads using one BoundedSemaphore
NextBSem ==
    \/ \E t \in Threads, block \in BOOLEAN : CallSemAcquire(t, block, NoTimeout)
    \/ \E t \in Threads, n \in ReleaseArgs : CallBSemRelease(t, n)
    \/ \E t \in Threads : SemAcquireNonBlocking(t)
    \/ \E t \in Threads : SemAcquireReturn(t)
    \/ \E t \in Threads : BSemReleaseAdd(t)
    \/ \E t \in Threads : SemReleaseExit(t)
    \/ \E t \in Threads : WaitForStep(t)
    \/ \E t \in Threads : LockStep(t)
    \/ \E t \in Threads : UntimedWaitStep(t)

SpecBSem == InitSem /\ [][NextBSem]_vars

\* ------------------------------- Queue, LifoQueue, PriorityQueue ---------
\* Python lists are indexed from 0
At(h, i) == h[i + 1]
Put(h, i, x) == [h EXCEPT ![i + 1] = x]

\* PriorityQueue.__siftdown, lines 484-495: the loop of lines 487-494 with
\* the locals pos and newitem, then line 495
RECURSIVE SiftDownLoop(_, _, _, _)
SiftDownLoop(h, startpos, pos, newitem) ==
    IF pos > startpos
    THEN LET parentpos == (pos - 1) \div 2
             parent == At(h, parentpos)
         IN  IF newitem < parent
             THEN SiftDownLoop(Put(h, pos, parent), startpos, parentpos, newitem)
             ELSE Put(h, pos, newitem)
    ELSE Put(h, pos, newitem)

siftdown(h, startpos, pos) == SiftDownLoop(h, startpos, pos, At(h, pos))

\* PriorityQueue.__siftup, lines 502-515: the loop of lines 507-513 with
\* the locals pos and newitem, then lines 514-515
RECURSIVE SiftUpLoop(_, _, _, _)
SiftUpLoop(h, startpos, pos, newitem) ==
    LET endpos == Len(h)
        left == 2 * pos + 1
    IN  IF left < endpos
        THEN LET rightpos == left + 1
                 childpos == IF rightpos < endpos /\ ~(At(h, left) < At(h, rightpos))
                             THEN rightpos ELSE left
             IN  SiftUpLoop(Put(h, pos, At(h, childpos)), startpos, childpos, newitem)
        ELSE siftdown(Put(h, pos, newitem), startpos, pos)

siftup(h, pos) == SiftUpLoop(h, pos, pos, At(h, pos))

\* PriorityQueue._put, lines 497-499
\* mutant: the new item stays at the end of the list
MutHeapPutNoSift(h, item) == Append(h, item)

heap_put(h, item) == siftdown(Append(h, item), 0, Len(h))

\* PriorityQueue._get, lines 517-524, on a non-empty list: the item
\* returned and the list left
heap_get_item(h) == IF Len(h) > 1 THEN At(h, 0) ELSE h[Len(h)]

heap_get_rest(h) ==
    LET lastelt == h[Len(h)]
        popped == SubSeq(h, 1, Len(h) - 1)
    IN  IF Len(popped) > 0 THEN siftup(Put(popped, 0, lastelt), 0) ELSE popped

Items == 1..MaxItem
QueueKinds == {"fifo", "lifo", "prio"}

\* _put of the class k of the queue: Queue (lines 424-425), LifoQueue
\* (lines 475-476), PriorityQueue (lines 497-499)
qput(k, q, item) == IF k = "prio" THEN heap_put(q, item) ELSE Append(q, item)

\* _get of the class k on a non-empty list: Queue (lines 443-444: pop(0)),
\* LifoQueue (lines 478-479: pop()), PriorityQueue (lines 517-524)
\* mutant: every class returns the last item
MutQgetItemLast(k, q) == q[Len(q)]

qget_item(k, q) ==
    CASE k = "fifo" -> q[1]
      [] k = "lifo" -> q[Len(q)]
      [] k = "prio" -> heap_get_item(q)

qget_rest(k, q) ==
    CASE k = "fifo" -> Tail(q)
      [] k = "lifo" -> SubSeq(q, 1, Len(q) - 1)
      [] k = "prio" -> heap_get_rest(q)

\* a thread calls q.put(item, block): line 428, with self.__not_full.  A
\* blocking call goes on to lines 434-437, wait_for(len < max_size).
\* mutant: put does not take the lock
MutCallPutNoLock(t, block) ==
    /\ Ready(t)
    /\ pc' = [pc EXCEPT ![t] = IF block THEN "e_pred" ELSE "p_nb"]
    /\ eop' = IF ~block THEN eop ELSE [eop EXCEPT ![t] = "put"]
    /\ UNCHANGED <<lockVars, lk, ret, exc, deadline, held, now, condVars, flag, eclear,
                   etmo, eend, restVars>>

CallPut(t, block) ==
    /\ Ready(t)
    /\ AcquireEnter(t, L, IF block THEN "e_pred" ELSE "p_nb", "deadlock", NoTimeout)
    /\ eop' = IF pc'[t] = "deadlock" \/ ~block THEN eop ELSE [eop EXCEPT ![t] = "put"]
    /\ UNCHANGED <<condVars, flag, eclear, etmo, eend, restVars>>

\* lines 438 and 461 out of the with block: Full or Empty is raised and
\* __exit__ releases the lock
QueueRaise(t, label) ==
    /\ ReleaseEnter(t, L, label, "unowned")
    /\ UNCHANGED <<condVars, queue, qitem>>

\* lines 440-441: self._put(item); self.__not_empty.notify().  The item is
\* put's argument; nothing reads it before line 440, so its value is
\* drawn here.
PutItem(t) ==
    /\ \E item \in Items : queue' = qput(qkind, queue, item)
    /\ NotifyNotEmpty(t, 1)
    /\ pc' = [pc EXCEPT ![t] = "q_rel"]
    /\ UNCHANGED <<lk, ret, exc, deadline, held, now, qitem>>

\* lines 429-431 and 440-441: the non-blocking put
\* mutant: the length is not tested
MutPutNonBlockingUnchecked(t) ==
    /\ pc[t] = "p_nb"
    /\ PutItem(t)
    /\ UNCHANGED <<evVars, semVars, qkind, max_size, heapVars, thVars, appVars>>

\* mutant: the test lets one item too many in
MutPutNonBlockingOffByOne(t) ==
    /\ pc[t] = "p_nb"
    /\ IF Len(queue) > max_size THEN QueueRaise(t, "full") ELSE PutItem(t)
    /\ UNCHANGED <<evVars, semVars, qkind, max_size, heapVars, thVars, appVars>>

PutNonBlocking(t) ==
    /\ pc[t] = "p_nb"
    /\ IF Len(queue) >= max_size THEN QueueRaise(t, "full") ELSE PutItem(t)
    /\ UNCHANGED <<evVars, semVars, qkind, max_size, heapVars, thVars, appVars>>

\* lines 434-441: the blocking put after wait_for
PutReturn(t) ==
    /\ pc[t] \in {"e_ret_t", "e_ret_f"}
    /\ eop[t] = "put"
    /\ IF pc[t] = "e_ret_f" THEN QueueRaise(t, "full") ELSE PutItem(t)
    /\ eop' = [eop EXCEPT ![t] = "none"]
    /\ eend' = [eend EXCEPT ![t] = 0]
    /\ UNCHANGED <<flag, eclear, etmo, semVars, qkind, max_size, heapVars, thVars, appVars>>

\* a thread calls q.get(block): line 447, with self.__not_empty
CallGet(t, block) ==
    /\ Ready(t)
    /\ AcquireEnter(t, L, IF block THEN "e_pred" ELSE "g_nb", "deadlock", NoTimeout)
    /\ eop' = IF pc'[t] = "deadlock" \/ ~block THEN eop ELSE [eop EXCEPT ![t] = "get"]
    /\ UNCHANGED <<condVars, flag, eclear, etmo, eend, restVars>>

\* lines 459-460: item = self._get(); self.__not_full.notify()
TakeItem(t) ==
    /\ qitem' = [qitem EXCEPT ![t] = qget_item(qkind, queue)]
    /\ queue' = qget_rest(qkind, queue)
    /\ NotifyBody(t, 1)
    /\ pc' = [pc EXCEPT ![t] = "q_rel"]
    /\ UNCHANGED <<lk, ret, exc, deadline, held, now>>

\* lines 448-450 and 459-460: the non-blocking get
GetNonBlocking(t) ==
    /\ pc[t] = "g_nb"
    /\ IF Len(queue) = 0 THEN QueueRaise(t, "empty") ELSE TakeItem(t)
    /\ UNCHANGED <<evVars, semVars, qkind, max_size, heapVars, thVars, appVars>>

\* lines 453-460: the blocking get after wait_for
GetReturn(t) ==
    /\ pc[t] \in {"e_ret_t", "e_ret_f"}
    /\ eop[t] = "get"
    /\ IF pc[t] = "e_ret_f" THEN QueueRaise(t, "empty") ELSE TakeItem(t)
    /\ eop' = [eop EXCEPT ![t] = "none"]
    /\ eend' = [eend EXCEPT ![t] = 0]
    /\ UNCHANGED <<flag, eclear, etmo, semVars, qkind, max_size, heapVars, thVars, appVars>>

\* the end of the with blocks of lines 428, 447 and 467; get returns item
QueueExit(t) ==
    /\ pc[t] = "q_rel"
    /\ ReleaseEnter(t, L, "idle", "unowned")
    /\ qitem' = [qitem EXCEPT ![t] = 0]
    /\ UNCHANGED <<condVars, evVars, semVars, queue, qkind, max_size, heapVars, thVars, appVars>>

\* a thread calls q.clear(): line 467, with self.__lock
CallQueueClear(t) ==
    /\ Ready(t)
    /\ AcquireEnter(t, L, "q_clr", "deadlock", NoTimeout)
    /\ UNCHANGED <<condVars, evVars, restVars>>

\* lines 468-469: the list is emptied and every put-waiter is notified
QueueClear(t) ==
    /\ pc[t] = "q_clr"
    /\ queue' = <<>>
    /\ NotifyBody(t, Len(waiters))
    /\ pc' = [pc EXCEPT ![t] = "q_rel"]
    /\ UNCHANGED <<lk, ret, exc, deadline, held, now, evVars, semVars, qkind, max_size,
                   qitem, heapVars, thVars, appVars>>

\* a queue of any class with any capacity in 1..MaxSize
InitQueue ==
    /\ BaseInit
    /\ SemInit(1)
    /\ \E k \in QueueKinds, c \in 1..MaxSize : QueueInit(k, c)
    /\ HeapInit
    /\ ThreadInit
    /\ AppInit

\* threads using one queue
NextQueue ==
    \/ \E t \in Threads, block \in BOOLEAN : CallPut(t, block)
    \/ \E t \in Threads, block \in BOOLEAN : CallGet(t, block)
    \/ \E t \in Threads : CallQueueClear(t)
    \/ \E t \in Threads : PutNonBlocking(t)
    \/ \E t \in Threads : PutReturn(t)
    \/ \E t \in Threads : GetNonBlocking(t)
    \/ \E t \in Threads : GetReturn(t)
    \/ \E t \in Threads : QueueClear(t)
    \/ \E t \in Threads : QueueExit(t)
    \/ \E t \in Threads : WaitForStep(t)
    \/ \E t \in Threads : LockStep(t)
    \/ \E t \in Threads : UntimedWaitStep(t)

\* put and get are called without timeout, so no timer runs, and the
\* clock stands still
SpecQueue == InitQueue /\ [][NextQueue]_vars

\* the heap functions of PriorityQueue applied, one call at a time, to a
\* list that starts empty
HeapPut(item) ==
    /\ Len(heap) < MaxHeap
    /\ heap' = heap_put(heap, item)
    /\ hret' = 0
    /\ UNCHANGED <<lockVars, ctlVars, held, now, condVars, evVars, semVars, qVars, thVars, appVars>>

HeapGet ==
    /\ Len(heap) > 0
    /\ hret' = heap_get_item(heap)
    /\ heap' = heap_get_rest(heap)
    /\ UNCHANGED <<lockVars, ctlVars, held, now, condVars, evVars, semVars, qVars, thVars, appVars>>

NextHeap ==
    \/ \E item \in Items : HeapPut(item)
    \/ HeapGet

SpecHeap == Init /\ [][NextHeap]_vars

\* ------------------------------------------------------------ Thread -----
\* Threads call start() on one Thread object.  start() takes no lock, so
\* each of its statements is a step of its own.  A caller that left start()
\* is at
\*   "already"   start raised "thread already started" (line 555)
\*   "nothread"  _thread.start_new_thread raised (line 559)
\* Each call of _thread.start_new_thread that returns has started one raw
\* thread in __bootstrap (line 565), which calls run() and so the target
\* once (lines 567, 576).

\* the stack_size arguments: None, or a number of KB
StackArgs == {None} \cup (1..MaxStack)

\* a thread calls th.start(stack_size) (line 553)
CallStart(t, ss) ==
    /\ Ready(t)
    /\ pc' = [pc EXCEPT ![t] = "st_chk"]
    /\ starg' = [starg EXCEPT ![t] = ss]
    /\ UNCHANGED <<lockVars, lk, ret, exc, deadline, held, now, condVars, evVars,
                   semVars, qVars, heapVars, appVars, started, spawned, ident, stack_size,
                   newid, bout>>

\* lines 554-556: if self.__started: raise RuntimeError(...)
StartCheck(t) ==
    /\ pc[t] = "st_chk"
    /\ pc' = [pc EXCEPT ![t] = IF started THEN "already"
                               ELSE IF starg[t] # None THEN "st_size"
                               ELSE "st_spawn"]
    /\ UNCHANGED <<lockVars, lk, ret, exc, deadline, held, now, condVars, evVars,
                   restVars>>

\* line 557: _thread.stack_size(stack_size * 1024)
StartStackSize(t) ==
    /\ pc[t] = "st_size"
    /\ stack_size' = starg[t] * 1024
    /\ pc' = [pc EXCEPT ![t] = "st_spawn"]
    /\ UNCHANGED <<lockVars, lk, ret, exc, deadline, held, now, condVars, evVars,
                   semVars, qVars, heapVars, appVars, started, spawned, ident, starg, newid, bout>>

\* line 559, the call: _thread.start_new_thread(self.__bootstrap, ()) starts
\* a raw thread, which is at the first statement of __bootstrap, and
\* returns its id; the ids are 1, 2, ...
StartSpawn(t) ==
    /\ pc[t] = "st_spawn"
    /\ spawned < MaxBoot
    /\ spawned' = spawned + 1
    /\ newid' = [newid EXCEPT ![t] = spawned + 1]
    /\ pc' = [pc EXCEPT ![t] = "st_ident", ![Boot(spawned + 1)] = "b_run"]
    /\ UNCHANGED <<lockVars, lk, ret, exc, deadline, held, now, condVars, evVars,
                   semVars, qVars, heapVars, appVars, started, ident, stack_size, starg, bout>>

\* line 559, the call raising (no raw thread could be created): the try
\* block is left for the finally block with the exception pending
StartSpawnFails(t) ==
    /\ pc[t] = "st_spawn"
    /\ pc' = [pc EXCEPT ![t] = "st_fin_x"]
    /\ UNCHANGED <<lockVars, lk, ret, exc, deadline, held, now, condVars, evVars,
                   restVars>>

\* line 559, the assignment: self.__ident = <the id returned>
StartIdent(t) ==
    /\ pc[t] = "st_ident"
    /\ ident' = newid[t]
    /\ pc' = [pc EXCEPT ![t] = "st_flag"]
    /\ UNCHANGED <<lockVars, lk, ret, exc, deadline, held, now, condVars, evVars,
                   semVars, qVars, heapVars, appVars, started, spawned, stack_size, starg,
                   newid, bout>>

\* line 560: self.__started = True
StartFlag(t) ==
    /\ pc[t] = "st_flag"
    /\ started' = TRUE
    /\ pc' = [pc EXCEPT ![t] = "st_fin"]
    /\ UNCHANGED <<lockVars, lk, ret, exc, deadline, held, now, condVars, evVars,
                   semVars, qVars, heapVars, appVars, spawned, ident, stack_size, starg,
                   newid, bout>>

\* lines 561-563: the finally block puts the default stack size back if
\* the caller passed one; then start returns, or the pending exception
\* goes on to the caller
StartFinally(t) ==
    /\ pc[t] \in {"st_fin", "st_fin_x"}
    /\ stack_size' = IF starg[t] # None THEN DEFAULT_STACK_SIZE ELSE stack_size
    /\ pc' = [pc EXCEPT ![t] = IF pc[t] = "st_fin" THEN "idle" ELSE "nothread"]
    /\ newid' = [newid EXCEPT ![t] = None]
    /\ UNCHANGED <<lockVars, lk, ret, exc, deadline, held, now, condVars, evVars,
                   semVars, qVars, heapVars, appVars, started, spawned, ident, starg, bout>>


\* Thread.__bootstrap, lines 566-569, in raw thread b: run() calls the
\* target (lines 574-576), which returns or raises; an Exception is caught
\* and printed
BootRun(b) ==
    /\ pc[b] = "b_run"
    /\ \E o \in {"ret", "raise"} : bout' = [bout EXCEPT ![b] = o]
    /\ pc' = [pc EXCEPT ![b] = "b_fin"]
    /\ UNCHANGED <<lockVars, lk, ret, exc, deadline, held, now, condVars, evVars,
                   semVars, qVars, heapVars, appVars, started, spawned, ident, stack_size,
                   starg, newid>>

\* line 571, in the finally block: self.__stopped_event.set(), which
\* starts with the acquire of line 289.  When that raises, the exception
\* leaves __bootstrap and the raw thread ends at "b_lost"; otherwise the
\* thread goes through Event.set and ends at "idle".
BootSet(b) ==
    /\ pc[b] = "b_fin"
    /\ AcquireEnter(b, L, "s_set", "b_lost", NoTimeout)
    /\ UNCHANGED <<condVars, evVars, restVars>>

\* a thread calls th.join(timeout) (lines 541-544): RuntimeError before
\* start, else self.__stopped_event.wait(timeout)
CallJoin(t, timeout) ==
    IF started
    THEN CallEventWait(t, timeout, FALSE)
    ELSE /\ Ready(t)
         /\ pc' = [pc EXCEPT ![t] = "notstarted"]
         /\ UNCHANGED <<lockVars, lk, ret, exc, deadline, held, now, condVars, evVars,
                        restVars>>

\* every step of a raw thread
BootStep(b) ==
    \/ BootRun(b)
    \/ BootSet(b)
    \/ LockStep(b)
    \/ EventSetFlag(b)
    \/ EventSetExit(b)

\* threads calling start() on one Thread object
NextThread ==
    \/ \E t \in Threads, ss \in StackArgs : CallStart(t, ss)
    \/ \E t \in Threads : StartCheck(t)
    \/ \E t \in Threads : StartStackSize(t)
    \/ \E t \in Threads : StartSpawn(t)
    \/ \E t \in Threads : StartSpawnFails(t)
    \/ \E t \in Threads : StartIdent(t)
    \/ \E t \in Threads : StartFlag(t)
    \/ \E t \in Threads : StartFinally(t)

SpecThread == Init /\ [][NextThread]_vars

\* threads calling start() and join() on one Thread object, and the raw
\* threads it starts
NextJoin ==
    \/ \E t \in Threads : CallStart(t, None)
    \/ \E t \in Threads : StartCheck(t)
    \/ \E t \in Threads : StartSpawn(t)
    \/ \E t \in Threads : StartSpawnFails(t)
    \/ \E t \in Threads : StartIdent(t)
    \/ \E t \in Threads : StartFlag(t)
    \/ \E t \in Threads : StartFinally(t)
    \/ \E t \in Threads : CallJoin(t, NoTimeout)
    \/ \E t \in Threads : EventPredicate(t)
    \/ \E t \in Threads : EventLoop(t)
    \/ \E t \in Threads : EventCheck(t)
    \/ \E t \in Threads : EventReturn(t)
    \/ \E t \in Threads : EventRaise(t)
    \/ \E t \in Threads : LockStep(t)
    \/ \E t \in Threads : UntimedWaitStep(t)
    \/ \E b \in BootThreads : BootStep(b)

\* start is called without stack_size and join without timeout, so no
\* timer runs, and the clock stands still
SpecJoin == Init /\ [][NextJoin]_vars

\* ----------------------------------------------------------- _Result ----
\* Threads call set() and get() on one _Result.  Its Event __finished is
\* the Event of the model: flag, on the Condition with the backing lock L.
\* A caller that left get() with an exception is at
\*   "notready"  NotReadyError (line 633)
\*   "timeout"   TimeoutError (line 637)
\*   "reraised"  the stored exception, which is in gret (line 613)
\* and a get() that returned has left its value in gret.

\* the arguments of set: an exception or None, a return value or None
ExcArgs == {None} \cup (1..MaxExc)
RvArgs == {None} \cup (1..MaxRv)

\* a thread calls result.set(exc, rv) (line 599)
CallResultSet(t) ==
    /\ Ready(t)
    /\ pc' = [pc EXCEPT ![t] = "rs_exc"]
    /\ UNCHANGED <<lockVars, lk, ret, exc, deadline, held, now, condVars, evVars,
                   restVars>>

\* lines 606 and 607: self.__exc = exc, then self.__rv = rv, without a
\* lock.  The two values are set's arguments; nothing reads them before
\* these lines, so they are drawn here.
ResultSetField(t) ==
    /\ pc[t] \in {"rs_exc", "rs_rv"}
    /\ IF pc[t] = "rs_exc"
       THEN (\E e \in ExcArgs : rexc' = e) /\ UNCHANGED rrv
       ELSE (\E v \in RvArgs : rrv' = v) /\ UNCHANGED rexc
    /\ pc' = [pc EXCEPT ![t] = IF pc[t] = "rs_exc" THEN "rs_rv" ELSE "rs_set"]
    /\ UNCHANGED <<lockVars, lk, ret, exc, deadline, held, now, condVars, evVars,
                   semVars, qVars, heapVars, thVars, taskVars, poolVars, gret>>

\* line 608: self.__finished.set(), which starts with the acquire of line
\* 289 and goes on with the steps of Event.set
ResultSetEvent(t) ==
    /\ pc[t] = "rs_set"
    /\ AcquireEnter(t, L, "s_set", "deadlock", NoTimeout)
    /\ UNCHANGED <<condVars, evVars, restVars>>

\* a thread calls result.get(block, timeout) (line 616).  Not blocking:
\* self.__finished.is_set() (line 631), which starts with the acquire of
\* line 298.  Blocking: self.__finished.wait(timeout) (line 635), which
\* starts with the acquire of line 282.
CallResultGet(t, block, timeout) ==
    /\ Ready(t)
    /\ timeout # NoTimeout => (block /\ now + timeout <= MaxTime)
    /\ AcquireEnter(t, L, IF block THEN "e_pred" ELSE "rg_isset", "deadlock", NoTimeout)
    /\ IF pc'[t] = "deadlock" \/ ~block
       THEN UNCHANGED <<eop, etmo>>
       ELSE /\ eop' = [eop EXCEPT ![t] = "rget"]
            /\ etmo' = [etmo EXCEPT ![t] = timeout]
    /\ gret' = [gret EXCEPT ![t] = None]
    /\ UNCHANGED <<condVars, flag, eclear, eend, semVars, qVars, heapVars, thVars, taskVars, poolVars,
                   rexc, rrv>>

\* lines 298-299 and 631-633: the flag is read under the lock and the lock
\* released; a flag that is not set makes get raise NotReadyError
\* mutant: get goes on to the stored outcome whatever the flag
MutResultIsSetAlways(t) ==
    /\ pc[t] = "rg_isset"
    /\ ReleaseEnter(t, L, "rg_val", "unowned")
    /\ UNCHANGED <<condVars, evVars, restVars>>

ResultIsSet(t) ==
    /\ pc[t] = "rg_isset"
    /\ ReleaseEnter(t, L, IF flag THEN "rg_val" ELSE "notready", "unowned")
    /\ UNCHANGED <<condVars, evVars, restVars>>

\* lines 283-286 and 635-637: Event.wait returns what wait_for returned
\* and the lock is released; False makes get raise TimeoutError
ResultGetReturn(t) ==
    /\ pc[t] \in {"e_ret_t", "e_ret_f"}
    /\ eop[t] = "rget"
    /\ eop' = [eop EXCEPT ![t] = "none"]
    /\ eend' = [eend EXCEPT ![t] = 0]
    /\ ReleaseEnter(t, L, IF pc[t] = "e_ret_t" THEN "rg_val" ELSE "timeout", "unowned")
    /\ UNCHANGED <<condVars, flag, eclear, etmo, restVars>>

\* _Result.__get_value_or_raise_exc (lines 610-614), without a lock: a
\* stored exception is raised (line 613), else the stored value is read and
\* returned (line 614)
ResultValue(t) ==
    /\ pc[t] \in {"rg_val", "rg_rv"}
    /\ IF pc[t] = "rg_val"
       THEN IF rexc # None
            THEN /\ gret' = [gret EXCEPT ![t] = rexc]
                 /\ pc' = [pc EXCEPT ![t] = "reraised"]
            ELSE /\ pc' = [pc EXCEPT ![t] = "rg_rv"]
                 /\ UNCHANGED gret
       ELSE /\ gret' = [gret EXCEPT ![t] = rrv]
            /\ pc' = [pc EXCEPT ![t] = "idle"]
    /\ UNCHANGED <<lockVars, lk, ret, exc, deadline, held, now, condVars, evVars,
                   semVars, qVars, heapVars, thVars, taskVars, poolVars, rexc, rrv>>

\* threads using one _Result
NextResult ==
    \/ \E t \in Threads : CallResultSet(t)
    \/ \E t \in Threads : ResultSetField(t)
    \/ \E t \in Threads : ResultSetEvent(t)
    \/ \E t \in Threads : EventSetFlag(t)
    \/ \E t \in Threads : EventSetExit(t)
    \/ \E t \in Threads, block \in BOOLEAN, timeout \in Timeouts :
            CallResultGet(t, block, timeout)
    \/ \E t \in Threads : ResultIsSet(t)
    \/ \E t \in Threads : ResultGetReturn(t)
    \/ \E t \in Threads : ResultValue(t)
    \/ \E t \in Threads : WaitForStep(t)
    \/ \E t \in Threads : LockStep(t)
    \/ \E t \in Threads : WaitStep(t)
    \/ \E w \in WaiterIds : TimerStep(w)
    \/ Tick

SpecResult == Init /\ [][NextResult]_vars

\* --------------------------------------------------------- AsyncTask ----
\* Threads call delay() and cancel() on one AsyncTask, whose __lock is the
\* lock L.  The k-th delay() that gets as far creates _Result k and Thread
\* k, and Thread k's start() starts the raw thread Boot(k), which runs
\* __bootstrap, run and so __run.  Nothing but __run touches a _Result here
\* and nobody joins a Thread, so _Result.set (lines 606-608) and the
\* Event.set of a Thread's completion Event are taken as one step each.
\* Under the lock a caller is at "x_d_ok" when delay is about to return
\* the _Result, at "x_c_true" or "x_c_false" when cancel is about to return
\* True or False, at "x_already" or "x_nothread" when delay is about to
\* raise.  A raw thread that has ended is at "idle", one that was stopped
\* by _thread.stop_thread at "killed".

\* the RuntimeError that line 92 raises, as an exception stored by __run
DeadlockError == MaxExc + 1

\* the number of the raw thread b
BootIndex(b) == b - NThreads - MaxWaiters

\* a thread calls task.delay() (line 677): line 686, with self.__lock
CallDelay(t) ==
    /\ Ready(t)
    /\ spawned + Cardinality({u \in Threads : pc[u] = "d_body" \/ ret[u] = "d_body"}) < MaxBoot
    /\ AcquireEnter(t, L, "d_body", "deadlock", NoTimeout)
    /\ UNCHANGED <<condVars, evVars, restVars>>

\* lines 687-693 under the lock.  A task that is not PENDING: RuntimeError.
\* Else a _Result and a Thread are created and stored, and Thread.start
\* (lines 553-563, on a Thread no other thread knows yet) starts the raw
\* thread and stores its id, or raises because no raw thread could be
\* created.
TaskDelay(t) ==
    /\ pc[t] = "d_body"
    /\ IF status # "PENDING"
       THEN /\ pc' = [pc EXCEPT ![t] = "x_already"]
            /\ UNCHANGED <<tresult, tthread, results, spawned, tident, tstopped>>
       ELSE LET k == spawned + 1 IN
            /\ tresult' = k
            /\ tthread' = k
            /\ results' = [results EXCEPT ![k] = <<FALSE, None, None>>]
            /\ \/ /\ spawned' = k
                  /\ tident' = [tident EXCEPT ![k] = k]
                  /\ tstopped' = [tstopped EXCEPT ![k] = FALSE]
                  /\ pc' = [pc EXCEPT ![t] = "x_d_ok", ![Boot(k)] = "r_lock1"]
               \/ /\ pc' = [pc EXCEPT ![t] = "x_nothread"]
                  /\ tident' = [tident EXCEPT ![k] = None]
                  /\ tstopped' = [tstopped EXCEPT ![k] = FALSE]
                  /\ UNCHANGED spawned
    /\ UNCHANGED <<lockVars, lk, ret, exc, deadline, held, now, condVars, evVars,
                   semVars, qVars, heapVars, started, ident, stack_size, starg,
                   newid, bout, resVars, poolVars, status, terror, start_time, end_time,
                   brv, berr, ran, cpend>>

\* a thread calls task.cancel() (line 726): line 732, with self.__lock
CallCancel(t) ==
    /\ Ready(t)
    /\ AcquireEnter(t, L, "c_body", "deadlock", NoTimeout)
    /\ UNCHANGED <<condVars, evVars, restVars>>

\* the states in which __run has finished or will not run
Terminal == {"COMPLETED", "FAILED", "CANCELLED"}

\* lines 733-740 under the lock.  Thread.terminate (lines 546-551), called
\* for a RUNNING task: a raw thread that is_running (its id is stored and
\* it has not ended) is stopped where it is and the id dropped; the
\* completion Event is set.
\* mutant: cancel cancels whatever the status
MutTaskCancelAlways(t) ==
    /\ pc[t] = "c_body"
    /\ status' = "CANCELLED"
    /\ pc' = [pc EXCEPT ![t] = "x_c_true"]
    /\ UNCHANGED <<lockVars, lk, ret, exc, deadline, held, now, condVars, evVars,
                   semVars, qVars, heapVars, thVars, resVars, poolVars, tresult, tthread,
                   terror, start_time, end_time, results, tident, tstopped, brv, berr,
                   ran, cpend>>

TaskCancel(t) ==
    /\ pc[t] = "c_body"
    /\ IF status = "PENDING"
       THEN /\ status' = "CANCELLED"
            /\ cpend' = TRUE
            /\ pc' = [pc EXCEPT ![t] = "x_c_true"]
            /\ UNCHANGED <<tident, tstopped>>
       ELSE IF status = "RUNNING" /\ tthread # 0
       THEN LET k == tthread
                running == tident[k] # None /\ pc[Boot(k)] \notin {"idle", "killed"}
            IN  /\ status' = "CANCELLED"
                /\ tident' = IF running THEN [tident EXCEPT ![k] = None] ELSE tident
                /\ tstopped' = [tstopped EXCEPT ![k] = TRUE]
                /\ pc' = [pc EXCEPT ![t] = "x_c_true",
                                    ![Boot(k)] = IF running THEN "killed" ELSE pc[Boot(k)]]
                /\ UNCHANGED cpend
       ELSE /\ pc' = [pc EXCEPT ![t] = "x_c_false"]
            /\ UNCHANGED <<status, cpend, tident, tstopped>>
    /\ UNCHANGED <<lockVars, lk, ret, exc, deadline, held, now, condVars, evVars,
                   semVars, qVars, heapVars, thVars, resVars, poolVars, tresult, tthread,
                   terror, start_time, end_time, results, brv, berr, ran>>

\* the end of the with blocks of lines 686 and 732: the lock is released,
\* and delay or cancel returns or raises
TaskExit(t) ==
    /\ pc[t] \in {"x_d_ok", "x_already", "x_nothread", "x_c_true", "x_c_false"}
    /\ ReleaseEnter(t, L, CASE pc[t] = "x_already" -> "already"
                            [] pc[t] = "x_nothread" -> "nothread"
                            [] OTHER -> "idle", "unowned")
    /\ UNCHANGED <<condVars, evVars, restVars>>

\* __run in raw thread b, the with self.__lock of lines 698, 711, 717 and
\* 722.  An acquire that raises at line 698 or 711 is caught at line 715;
\* one that raises in the except block goes on to the finally block; one
\* that raises in the finally block leaves __run.
RunAcquire(b) ==
    /\ pc[b] \in {"r_lock1", "r_lock2", "r_exc", "r_fin"}
    /\ AcquireEnter(b, L, CASE pc[b] = "r_lock1" -> "r_run"
                            [] pc[b] = "r_lock2" -> "r_done"
                            [] pc[b] = "r_exc" -> "r_fail"
                            [] OTHER -> "r_end",
                          CASE pc[b] \in {"r_lock1", "r_lock2"} -> "r_exc"
                            [] pc[b] = "r_exc" -> "r_fin"
                            [] OTHER -> "r_exit", NoTimeout)
    /\ berr' = IF pc'[b] = "r_exc" THEN [berr EXCEPT ![b] = DeadlockError] ELSE berr
    /\ UNCHANGED <<condVars, evVars, semVars, qVars, heapVars, thVars, resVars, poolVars, status,
                   tresult, tthread, terror, start_time, end_time, results, tident,
                   tstopped, brv, ran, cpend>>

\* lines 699-700 and the end of the with block
RunMark(b) ==
    /\ pc[b] = "r_run"
    /\ status' = "RUNNING"
    /\ start_time' = now
    /\ ReleaseEnter(b, L, "r_sleep", "unowned")
    /\ UNCHANGED <<condVars, evVars, semVars, qVars, heapVars, thVars, resVars, poolVars,
                   tresult, tthread, terror, end_time, results, tident, tstopped, brv,
                   berr, ran, cpend>>

\* lines 702-707: after the sleep, if any, the status is read without the
\* lock; a CANCELLED task returns through the finally block
RunCheck(b) ==
    /\ pc[b] = "r_sleep"
    /\ pc' = [pc EXCEPT ![b] = IF status = "CANCELLED" THEN "r_fin" ELSE "r_target"]
    /\ UNCHANGED <<lockVars, lk, ret, exc, deadline, held, now, condVars, evVars, restVars>>

\* line 709: the target is called; it returns a value or raises
RunTarget(b) ==
    /\ pc[b] = "r_target"
    /\ ran' = ran + 1
    /\ \/ \E v \in RvArgs :
            /\ brv' = [brv EXCEPT ![b] = v]
            /\ bout' = [bout EXCEPT ![b] = "ret"]
            /\ pc' = [pc EXCEPT ![b] = "r_lock2"]
            /\ UNCHANGED berr
       \/ \E e \in 1..MaxExc :
            /\ berr' = [berr EXCEPT ![b] = e]
            /\ bout' = [bout EXCEPT ![b] = "raise"]
            /\ pc' = [pc EXCEPT ![b] = "r_exc"]
            /\ UNCHANGED brv
    /\ UNCHANGED <<lockVars, lk, ret, exc, deadline, held, now, condVars, evVars,
                   semVars, qVars, heapVars, started, spawned, ident, stack_size,
                   starg, newid, resVars, poolVars, status, tresult, tthread, terror, start_time,
                   end_time, results, tident, tstopped, cpend>>

\* lines 712-713, or lines 718-720, and the end of the with block: the
\* status is set and the outcome stored in the _Result self.__result
RunDone(b) ==
    /\ pc[b] \in {"r_done", "r_fail"}
    /\ IF pc[b] = "r_done"
       THEN /\ status' = "COMPLETED"
            /\ results' = [results EXCEPT ![tresult] = <<TRUE, None, brv[b]>>]
            /\ UNCHANGED terror
       ELSE /\ status' = "FAILED"
            /\ terror' = berr[b]
            /\ results' = [results EXCEPT ![tresult] = <<TRUE, berr[b], None>>]
    /\ ReleaseEnter(b, L, "r_fin", "unowned")
    /\ UNCHANGED <<condVars, evVars, semVars, qVars, heapVars, thVars, resVars, poolVars,
                   tresult, tthread, start_time, end_time, tident, tstopped, brv, berr,
                   ran, cpend>>

\* line 723 and the end of the with block
RunEnd(b) ==
    /\ pc[b] = "r_end"
    /\ end_time' = now
    /\ ReleaseEnter(b, L, "r_exit", "unowned")
    /\ UNCHANGED <<condVars, evVars, semVars, qVars, heapVars, thVars, resVars, poolVars,
                   status, tresult, tthread, terror, start_time, results, tident,
                   tstopped, brv, berr, ran, cpend>>

\* __run is left; Thread.__bootstrap (lines 568-572) prints an exception
\* that left it and sets the completion Event of its Thread; the raw thread
\* ends
RunExit(b) ==
    /\ pc[b] = "r_exit"
    /\ tstopped' = [tstopped EXCEPT ![BootIndex(b)] = TRUE]
    /\ pc' = [pc EXCEPT ![b] = "idle"]
    /\ UNCHANGED <<lockVars, lk, ret, exc, deadline, held, now, condVars, evVars,
                   semVars, qVars, heapVars, thVars, resVars, poolVars, status, tresult, tthread,
                   terror, start_time, end_time, results, tident, brv, berr, ran, cpend>>

\* threads using one AsyncTask, and its raw threads
NextTask ==
    \/ \E t \in Threads : CallDelay(t)
    \/ \E t \in Threads : TaskDelay(t)
    \/ \E t \in Threads : CallCancel(t)
    \/ \E t \in Threads : TaskCancel(t)
    \/ \E t \in Threads : TaskExit(t)
    \/ \E t \in Threads : LockStep(t)
    \/ \E b \in BootThreads : RunAcquire(b)
    \/ \E b \in BootThreads : RunMark(b)
    \/ \E b \in BootThreads : RunCheck(b)
    \/ \E b \in BootThreads : RunTarget(b)
    \/ \E b \in BootThreads : RunDone(b)
    \/ \E b \in BootThreads : RunEnd(b)
    \/ \E b \in BootThreads : RunExit(b)
    \/ \E b \in BootThreads : LockStep(b)

\* the clock stands still: delay sleeps for no measurable time and no lock
\* is held for 30 s
SpecTask == Init /\ [][NextTask]_vars

\* ------------------------------------------------ ThreadPoolExecutor ------
\* Thread.__init__ (line 530) takes target, args and kwargs only.  The call
\* of line 867, Thread(target=_worker, args=(...), name=thread_name), passes
\* a keyword it does not have, so the call raises TypeError before a Thread
\* object exists: lines 868-870 are never reached, __threads stays empty and
\* _worker (lines 795-810) and _WorkItem.__call__ (lines 784-792) are never
\* called.  They have no action here for that reason.

\* what submit gave its caller: the number of a _Result, or Raised
Raised == -1

\* a pool as ThreadPoolExecutor.__init__ leaves it, max_workers being any
\* of 1..MaxWorkers, with its work queue Queue() of the default max_size
InitPool ==
    /\ BaseInit
    /\ SemInit(1)
    /\ QueueInit("fifo", DEFAULT_MAX_SIZE)
    /\ HeapInit
    /\ ThreadInit
    /\ ResultInit
    /\ TaskInit
    /\ \E n \in 1..MaxWorkers : PoolInit(n)

\* a thread calls pool.submit(fn): lines 853-857.  After shutdown it raises;
\* otherwise line 856 creates a _Result, the local result, and line 857 a
\* _WorkItem, whose __init__ (line 782) creates another _Result for itself.
CallSubmit(t) ==
    /\ Ready(t)
    /\ pop[t] = "none"
    /\ Len(work_result) < MaxSubmit
    /\ sdone' = [sdone EXCEPT ![t] = FALSE]
    /\ sseen' = [sseen EXCEPT ![t] = {}]
    /\ IF pshutdown
       THEN /\ pc' = [pc EXCEPT ![t] = "closed"]
            /\ UNCHANGED <<nresult, work_result, given, pop, pwork, presult>>
       ELSE /\ presult' = [presult EXCEPT ![t] = nresult + 1]
            /\ work_result' = Append(work_result, nresult + 2)
            /\ nresult' = nresult + 2
            /\ pwork' = [pwork EXCEPT ![t] = Len(work_result) + 1]
            /\ given' = Append(given, 0)
            /\ pop' = [pop EXCEPT ![t] = "submit"]
            /\ pc' = [pc EXCEPT ![t] = "sb_put"]
    /\ UNCHANGED <<lockVars, lk, ret, exc, deadline, held, now, condVars, evVars,
                   semVars, qVars, heapVars, thVars, resVars, taskVars,
                   max_workers, pshutdown, threads, finished, pwait, shutret, wkVars>>

\* line 858: self.__work_queue.put(work), a blocking put without timeout
\* (line 428, with self.__not_full)
SubmitPut(t) ==
    /\ pc[t] = "sb_put"
    /\ AcquireEnter(t, L, "e_pred", "deadlock", NoTimeout)
    /\ eop' = IF pc'[t] = "deadlock" THEN eop ELSE [eop EXCEPT ![t] = "put"]
    /\ UNCHANGED <<condVars, flag, eclear, etmo, eend, restVars>>

\* lines 440-441 inside that put: the item appended is submit's local work
SubmitPutReturn(t) ==
    /\ pop[t] = "submit"
    /\ PutReturn(t)
    /\ pc[t] = "e_ret_t" => queue' = Append(queue, pwork[t])

\* lines 860-861 and 863-870.  An exception of put leaves submit.  Otherwise
\* __adjust_thread_count runs: below max_workers it calls Thread(...) at
\* line 867, which raises TypeError out of submit; only with max_workers
\* threads already in the list is line 861 reached and result, the _Result
\* of line 856, returned.
SubmitAdjust(t) ==
    /\ pop[t] = "submit"
    /\ Ready(t)
    /\ pop' = [pop EXCEPT ![t] = "none"]
    /\ pwork' = [pwork EXCEPT ![t] = 0]
    /\ presult' = [presult EXCEPT ![t] = 0]
    /\ IF pc[t] # "idle"
       THEN /\ given' = [given EXCEPT ![pwork[t]] = Raised]
            /\ UNCHANGED pc
       ELSE IF Len(threads) < max_workers
       THEN /\ given' = [given EXCEPT ![pwork[t]] = Raised]
            /\ pc' = [pc EXCEPT ![t] = "typeerror"]
       ELSE /\ given' = [given EXCEPT ![pwork[t]] = presult[t]]
            /\ UNCHANGED pc
    /\ UNCHANGED <<lockVars, lk, ret, exc, deadline, held, now, condVars, evVars,
                   semVars, qVars, heapVars, thVars, resVars, taskVars,
                   max_workers, pshutdown, threads, nresult, work_result, finished,
                   pwait, sseen, sdone, shutret, wkVars>>

\* a thread calls pool.shutdown(wait): line 879
\* mutant: the call flips the flag
MutCallShutdownToggle(t, wait) ==
    /\ Ready(t)
    /\ pop[t] = "none"
    /\ pshutdown' = ~pshutdown
    /\ pop' = [pop EXCEPT ![t] = "shutdown"]
    /\ pwait' = [pwait EXCEPT ![t] = wait]
    /\ sseen' = [sseen EXCEPT ![t] = {w \in {queue[i] : i \in 1..Len(queue)} :
                                         given[w] # 0}]
    /\ sdone' = [sdone EXCEPT ![t] = FALSE]
    /\ pc' = [pc EXCEPT ![t] = "sh_wait"]
    /\ UNCHANGED <<lockVars, lk, ret, exc, deadline, held, now, condVars, evVars,
                   semVars, qVars, heapVars, thVars, resVars, taskVars,
                   max_workers, threads, nresult, work_result, finished,
                   pwork, presult, given, shutret, wkVars>>

CallShutdown(t, wait) ==
    /\ Ready(t)
    /\ pop[t] = "none"
    /\ pshutdown' = TRUE
    /\ pop' = [pop EXCEPT ![t] = "shutdown"]
    /\ pwait' = [pwait EXCEPT ![t] = wait]
    /\ sseen' = [sseen EXCEPT ![t] = {w \in {queue[i] : i \in 1..Len(queue)} :
                                         given[w] # 0}]
    /\ sdone' = [sdone EXCEPT ![t] = FALSE]
    /\ pc' = [pc EXCEPT ![t] = "sh_wait"]
    /\ UNCHANGED <<lockVars, lk, ret, exc, deadline, held, now, condVars, evVars,
                   semVars, qVars, heapVars, thVars, resVars, taskVars,
                   max_workers, threads, nresult, work_result, finished,
                   pwork, presult, given, shutret, wkVars>>

\* lines 880-884: with wait, one None is put and one join made for every
\* Thread of __threads; the list being empty, both loops end at once
ShutdownWait(t) ==
    /\ pc[t] = "sh_wait"
    /\ pop' = [pop EXCEPT ![t] = "none"]
    /\ IF pwait[t] /\ threads # <<>>
       THEN /\ pc' = [pc EXCEPT ![t] = "sh_loop"]
            /\ UNCHANGED <<sdone, shutret>>
       ELSE /\ pc' = [pc EXCEPT ![t] = "idle"]
            /\ sdone' = [sdone EXCEPT ![t] = pwait[t]]
            /\ shutret' = (shutret \/ pwait[t])
    /\ UNCHANGED <<lockVars, lk, ret, exc, deadline, held, now, condVars, evVars,
                   semVars, qVars, heapVars, thVars, resVars, taskVars,
                   max_workers, pshutdown, threads, nresult, work_result, finished,
                   pwork, presult, pwait, sseen, given, wkVars>>

\* threads using one pool
NextPool ==
    \/ \E t \in Threads : CallSubmit(t)
    \/ \E t \in Threads : SubmitPut(t)
    \/ \E t \in Threads : SubmitPutReturn(t)
    \/ \E t \in Threads : SubmitAdjust(t)
    \/ \E t \in Threads, wait \in BOOLEAN : CallShutdown(t, wait)
    \/ \E t \in Threads : ShutdownWait(t)
    \/ \E t \in Threads : QueueExit(t)
    \/ \E t \in Threads : EventPredicate(t)
    \/ \E t \in Threads : LockStep(t)

\* No call of the pool has a timeout, so no timer runs.  The queue holds
\* at most MaxSubmit < DEFAULT_MAX_SIZE items, so the predicate of put's
\* wait_for holds at line 236 and wait_for returns without waiting.
SpecPool == InitPool /\ [][NextPool]_vars

\* ------------------------------------------------ _worker, _WorkItem ------
\* No ThreadPoolExecutor ever runs _worker (see above), but _worker and
\* _WorkItem are functions of the module and run the same wherever they are
\* called from.  Here the last thread runs _worker(q) on a Queue q, as the
\* target of a Thread built without the keyword name, and the other threads
\* are clients: they build _WorkItems, put them and None into q, and poll
\* the items' results with work.result.get(block=False).
Worker == NThreads
Clients == Threads \ {Worker}

\* the worker thread enters _worker: line 801
WorkerStart ==
    /\ pc[Worker] = "idle"
    /\ pop[Worker] = "none"
    /\ pop' = [pop EXCEPT ![Worker] = "worker"]
    /\ pc' = [pc EXCEPT ![Worker] = "wk_get"]
    /\ UNCHANGED <<lockVars, lk, ret, exc, deadline, held, now, condVars, evVars,
                   semVars, qVars, heapVars, thVars, resVars, taskVars,
                   max_workers, pshutdown, threads, nresult, work_result, finished,
                   pwork, presult, pwait, sseen, sdone, given, shutret, wkVars>>

\* line 803: task = work_queue.get(), a blocking get without timeout (line
\* 447, with self.__not_empty)
WorkerGet ==
    /\ pc[Worker] = "wk_get"
    /\ AcquireEnter(Worker, L, "e_pred", "wk_caught", NoTimeout)
    /\ eop' = IF pc'[Worker] = "wk_caught" THEN eop ELSE [eop EXCEPT ![Worker] = "get"]
    /\ UNCHANGED <<condVars, flag, eclear, etmo, eend, restVars>>

\* the end of the with block of line 447 in that get: the item is returned
\* and assigned to task
WorkerGetExit ==
    /\ pc[Worker] = "q_rel"
    /\ ReleaseEnter(Worker, L, "wk_task", "wk_caught")
    /\ wtask' = qitem[Worker]
    /\ qitem' = [qitem EXCEPT ![Worker] = 0]
    /\ UNCHANGED <<condVars, evVars, semVars, queue, qkind, max_size, heapVars, thVars,
                   resVars, taskVars, max_workers, pshutdown, threads, nresult,
                   work_result, finished, pop, pwork, presult, pwait, sseen, sdone,
                   given, shutret, wout, rstore, wdone>>

\* lines 804-806 and 785-790: None ends the loop; any other task is called:
\* its target returns some v or raises some e, and _Result.set (lines
\* 606-607) stores the outcome in the fields of the item's result
WorkerCall ==
    /\ pc[Worker] = "wk_task"
    /\ IF wtask = None
       THEN /\ pc' = [pc EXCEPT ![Worker] = "idle"]
            /\ pop' = [pop EXCEPT ![Worker] = "ended"]
            /\ UNCHANGED <<wout, rstore>>
       ELSE /\ \/ \E v \in RvArgs :
                    /\ wout' = [wout EXCEPT ![wtask] = v]
                    /\ rstore' = [rstore EXCEPT ![wtask] = <<None, v>>]
               \/ \E e \in ExcArgs :
                    /\ wout' = [wout EXCEPT ![wtask] = -e]
                    /\ rstore' = [rstore EXCEPT ![wtask] = <<e, None>>]
            /\ pc' = [pc EXCEPT ![Worker] = "wk_set"]
            /\ UNCHANGED pop
    /\ UNCHANGED <<lockVars, lk, ret, exc, deadline, held, now, condVars, evVars,
                   semVars, qVars, heapVars, thVars, resVars, taskVars,
                   max_workers, pshutdown, threads, nresult, work_result, finished,
                   pwork, presult, pwait, sseen, sdone, given, shutret, wtask, wdone>>

\* line 608, self.__finished.set(): line 289, with self.__cond, on the lock
\* of the Event of the item's result
WorkerSet ==
    /\ pc[Worker] = "wk_set"
    /\ AcquireEnter(Worker, RLock(wtask), "wk_flag", "wk_caught", NoTimeout)
    /\ UNCHANGED <<condVars, evVars, restVars>>

\* lines 290-291 and the end of the with block: the flag is set, notify_all
\* finds no waiter (nobody waits on this Event), the lock is released; the
\* call task() has ended and the loop goes on (lines 809-810)
WorkerFlag ==
    /\ pc[Worker] = "wk_flag"
    /\ finished' = finished \cup {work_result[wtask]}
    /\ wdone' = wdone \cup {wtask}
    /\ ReleaseEnter(Worker, RLock(wtask), "wk_get", "wk_caught")
    /\ UNCHANGED <<condVars, evVars, semVars, qVars, heapVars, thVars, resVars, taskVars,
                   max_workers, pshutdown, threads, nresult, work_result,
                   pop, pwork, presult, pwait, sseen, sdone, given, shutret,
                   wtask, wout, rstore>>

\* lines 807-810: an exception of get or of task() is printed, and the loop
\* goes on
WorkerCaught ==
    /\ pop[Worker] = "worker"
    /\ pc[Worker] \in {"wk_caught", "failed", "unowned", "deadlock"}
    /\ pc' = [pc EXCEPT ![Worker] = "wk_get"]
    /\ wdone' = IF wtask # None THEN wdone \cup {wtask} ELSE wdone
    /\ wtask' = None
    /\ UNCHANGED <<lockVars, lk, ret, exc, deadline, held, now, condVars, evVars,
                   semVars, qVars, heapVars, thVars, resVars, taskVars,
                   max_workers, pshutdown, threads, nresult, work_result, finished,
                   pop, pwork, presult, pwait, sseen, sdone, given, shutret, wout, rstore>>

\* a client builds a _WorkItem (lines 778-782: its result is a new _Result)
\* and calls q.put(work), or it calls q.put(None): line 428.  One None is
\* enough to end the one worker.
ClientPut(t, none) ==
    /\ Ready(t)
    /\ ~none => Len(work_result) < MaxSubmit
    /\ none => pop[Worker] # "ended" /\ \A i \in 1..Len(queue) : queue[i] # None
    /\ ~none => /\ work_result' = Append(work_result, nresult + 1)
                /\ nresult' = nresult + 1
                /\ wout' = Append(wout, 0)
                /\ rstore' = Append(rstore, <<None, None>>)
                /\ pwork' = [pwork EXCEPT ![t] = Len(work_result) + 1]
    /\ none => /\ pwork' = [pwork EXCEPT ![t] = None]
               /\ UNCHANGED <<work_result, nresult, wout, rstore>>
    /\ AcquireEnter(t, L, "e_pred", "deadlock", NoTimeout)
    /\ eop' = IF pc'[t] = "deadlock" THEN eop ELSE [eop EXCEPT ![t] = "put"]
    /\ UNCHANGED <<condVars, flag, eclear, etmo, eend, semVars, qVars, heapVars, thVars,
                   resVars, taskVars, max_workers, pshutdown, threads, finished,
                   pop, presult, pwait, sseen, sdone, given, shutret, wtask, wdone>>

\* lines 434-441 in that put: the queue is not full, the item is appended
\* and not_empty is notified
ClientPutReturn(t) ==
    /\ pc[t] = "e_ret_t"
    /\ eop[t] = "put"
    /\ queue' = Append(queue, pwork[t])
    /\ NotifyNotEmpty(t, 1)
    /\ pc' = [pc EXCEPT ![t] = "q_rel"]
    /\ eop' = [eop EXCEPT ![t] = "none"]
    /\ eend' = [eend EXCEPT ![t] = 0]
    /\ UNCHANGED <<lk, ret, exc, deadline, held, now, qitem, flag, eclear, etmo,
                   semVars, qkind, max_size, heapVars, thVars, appVars>>

\* a client calls work.result.get(block=False) on an item it has built:
\* line 632, self.__finished.is_set() (line 298, with self.__cond)
ClientPoll(t, w) ==
    /\ Ready(t)
    /\ w \in 1..Len(work_result)
    /\ presult' = [presult EXCEPT ![t] = w]
    /\ AcquireEnter(t, RLock(w), "pl_read", "deadlock", NoTimeout)
    /\ UNCHANGED <<condVars, evVars, semVars, qVars, heapVars, thVars, resVars, taskVars,
                   max_workers, pshutdown, threads, nresult, work_result, finished,
                   pop, pwork, pwait, sseen, sdone, given, shutret, wkVars>>

\* lines 299 and 632-634: the flag is read, the lock released; get goes on
\* to the value, or raises NotReadyError
ClientPollRead(t) ==
    /\ pc[t] = "pl_read"
    /\ ReleaseEnter(t, RLock(presult[t]),
                    IF work_result[presult[t]] \in finished THEN "idle" ELSE "notready",
                    "unowned")
    /\ UNCHANGED <<condVars, evVars, restVars>>

\* a Queue() with the default max_size; nothing runs yet
InitWorker == InitPool

\* one worker and its clients.  The client puts at most MaxSubmit items
\* and the Nones, so the queue never fills: put's wait_for returns at
\* line 237.
NextWorker ==
    \/ WorkerStart
    \/ WorkerGet
    \/ WorkerGetExit
    \/ WorkerCall
    \/ WorkerSet
    \/ WorkerFlag
    \/ WorkerCaught
    \/ \E t \in Clients, none \in BOOLEAN : ClientPut(t, none)
    \/ \E t \in Clients : ClientPutReturn(t)
    \/ \E t \in Clients, w \in 1..MaxSubmit : ClientPoll(t, w)
    \/ \E t \in Clients : ClientPollRead(t)
    \/ \E t \in Clients : QueueExit(t)
    \/ GetReturn(Worker)
    \/ \E t \in Threads : WaitForStep(t)
    \/ \E t \in Threads : LockStep(t)
    \/ UntimedWaitStep(Worker)

SpecWorker == InitWorker /\ [][NextWorker]_vars

TypeOK ==
    /\ owner \in [LockIds -> Agents \cup {None}]
    /\ locked_count \in [LockIds -> 0..(MaxDepth + 2)]
    /\ waiting_threads \in [LockIds -> SUBSET Agents]
    /\ last_acquire_time \in [LockIds -> 0..MaxTime]
    /\ rawLocked \in [LockIds -> BOOLEAN]
    /\ held \in [Threads -> 0..(MaxDepth + 2)]
    /\ now \in 0..MaxTime
    /\ nwaiters \in 0..MaxWaiters
    /\ wgotit \in [WaiterIds -> BOOLEAN]
    /\ flag \in BOOLEAN

\* ------------------------------------------------------------ claims -----
\* C1: at most one thread holds a Lock at any moment: while one thread has
\* acquired it and not released it back to depth 0, no other thread's
\* acquire() has returned true; and an acquire() returns at once, without
\* going through the raw lock, only for the thread that is the owner.
C1_MutualExclusion ==
    /\ [](\A t, u \in Threads : (t # u /\ held[t] > 0) => held[u] = 0)
    /\ [][\A t \in Threads :
            (Ready(t) /\ held'[t] = held[t] + 1) => owner[L] = t]_vars

\* C1 witness: a thread holds the lock at depth 2 (it re-entered) while
\* another thread is blocked on the raw lock.
C1_Witness ==
    \E t, u \in Threads : t # u /\ held[t] = 2 /\ pc[u] = "raw" /\ lk[u] = L

\* C2: between its calls a thread holds the lock (it is the owner and the
\* raw lock is locked) exactly when its successful acquires minus its
\* releases are > 0, the depth counter is then that number, and the raw lock
\* is released only by the release that takes the thread's depth from 1 to 0.
C2_HeldIffNetDepth ==
    /\ [](\A t \in Threads : Ready(t) =>
            /\ (owner[L] = t /\ rawLocked[L]) <=> held[t] > 0
            /\ held[t] > 0 => locked_count[L] = held[t])
    /\ [][(rawLocked[L] /\ ~rawLocked'[L]) =>
            \E t \in Threads : pc[t] = "unlock" /\ held[t] = 1 /\ held'[t] = 0]_vars

\* C2 witness: a thread's release has just taken the depth to 0 and is about
\* to release the raw lock.
C2_Witness ==
    \E t \in Threads : pc[t] = "unlock" /\ lk[t] = L /\ held[t] = 1 /\ locked_count[L] = 0

\* C3: release() by a thread that is not the owner (the lock held by another
\* thread, or by nobody) raises the ownership error and leaves owner, depth
\* counter and raw lock as they were.
C3_ReleaseByNonOwnerFails ==
    [][\A t \in Threads :
        (CallRelease(t) /\ owner[L] # t) =>
            /\ pc'[t] = "unowned"
            /\ owner' = owner
            /\ locked_count' = locked_count
            /\ rawLocked' = rawLocked
            /\ held' = held]_vars

\* C3 witness: a release has raised the ownership error while another
\* thread holds the lock.
C3_Witness ==
    \E t, u \in Threads : t # u /\ pc[t] = "unowned" /\ owner[L] = u /\ held[u] > 0

\* C4 (as claimed): an acquire(timeout) whose deadline has passed while the
\* lock stays with another thread stops waiting (it returns false).
C4_TimedAcquireGivesUp ==
    \A t \in Threads :
        (pc[t] = "raw" /\ deadline[t] # 0 /\ now >= deadline[t]) ~> (pc[t] # "raw")


\* C5: a Condition.wait() without timeout stays blocked until a notify or
\* notify_all issued after it queued has selected its waiter; it never
\* comes back (here: stands at the return of wait, the backing lock
\* re-acquired) without that notification.
C5_UntimedWaitNeedsNotify ==
    \A t \in Threads : (pc[t] = "w_rm" /\ wtmo[t] = NoTimeout) => myw[t] \in notified

\* C6: a Condition.wait(timeout) that nobody notifies returns False, only
\* after the timeout has elapsed, and its waiter is gone from the waiter
\* sequence when it returns.
C6_TimedWaitTimesOut ==
    [][\A t \in Threads :
          (pc[t] = "w_rm" /\ pc'[t] # "w_rm" /\ wtmo[t] # NoTimeout /\ myw[t] \notin notified)
          => /\ ~gotit[t]
             /\ now >= expiry[myw[t]]
             /\ \A i \in 1..Len(waiters') : waiters'[i] # myw[t]]_vars

\* C7: notify(n) by the owner of the backing lock takes min(n, queued)
\* waiters, the earliest queued first; the waiters behind them stay queued
\* and their threads stay blocked in wait; an n beyond the length of the
\* queue changes nothing more.  (Parked: the thread of a queued waiter is
\* still inside its call and, unless the wait is timed, not past the gate.)
C7_NotifyFifo ==
    [][\A t \in Threads, n \in NotifyArgs :
          (CallNotify(t, n) /\ owner[L] = t)
          => LET k == Min(IF n < 0 THEN 0 ELSE n, Len(waiters))
                 Parked(w) ==
                     \E u \in Threads :
                         /\ myw[u] = w
                         /\ \/ wtmo[u] # NoTimeout
                            \/ pc[u] = "w_gate"
                            \/ pc[u] = "unlock" /\ lk[u] = L /\ ret[u] = "w_gate"
             IN
             /\ waiters' = SubSeq(waiters, k + 1, Len(waiters))
             /\ \A i \in 1..Len(waiters') : Parked(waiters'[i])]_vars

\* C8: Condition.wait returns only with the backing lock re-acquired: at
\* every return from wait the caller owns the backing lock.
C8_WaitReturnsOwning ==
    /\ [](\A t \in Threads : pc[t] = "w_rm" => (owner[L] = t /\ rawLocked[L]))
    /\ [][\A t \in Threads :
             (pc[t] = "w_rm" /\ pc'[t] # "w_rm")
             => (owner'[L] = t /\ rawLocked'[L] /\ locked_count'[L] > 0)]_vars

\* a wait is about to return with the backing lock while another thread
\* is blocked on that lock
C8_Witness ==
    \E t, u \in Threads :
        t # u /\ pc[t] = "w_rm" /\ owner[L] = t /\ pc[u] = "raw" /\ lk[u] = L

\* C9: wait, notify and notify_all called by a thread that does not own
\* the backing lock fail at once with an error: the call is over in one
\* step, and neither the waiter sequence nor any lock has changed.
C9_UnownedFails ==
    [][\A t \in Threads :
          (/\ owner[L] # t
           /\ \/ \E timeout \in Timeouts : CallWait(t, timeout)
              \/ \E n \in NotifyArgs : CallNotify(t, n)
              \/ CallNotifyAll(t))
          => /\ pc'[t] = "unheld"
             /\ waiters' = waiters
             /\ nwaiters' = nwaiters
             /\ owner' = owner
             /\ locked_count' = locked_count
             /\ rawLocked' = rawLocked]_vars

\* a call was refused while another thread held the lock and waiters
\* were queued
C9_Witness ==
    \E t, u \in Threads :
        t # u /\ pc[t] = "unheld" /\ owner[L] = u /\ rawLocked[L] /\ Len(waiters) > 0

\* C10: once the flag is set and while it stays set, an Event.wait in
\* progress goes on to return True, and an Event.wait that starts returns
\* True without blocking; in neither case does the call end with an
\* exception.  (Raising: the places of a thread whose call is ending, or
\* has ended, with an exception.)
C10_WaitSeesSet ==
    [][\A t \in Threads :
          LET Raising == {"w_exc", "w_exc2", "w_fin_x", "e_exit_x",
                          "failed", "deadlock", "unowned"} IN
          (flag /\ flag')
          => /\ (eop[t] = "wait" /\ pc[t] \notin Raising) => pc'[t] \notin Raising
             /\ (\E timeout \in Timeouts, clr \in BOOLEAN : CallEventWait(t, timeout, clr))
                => pc'[t] \notin Raising]_vars

\* C11: with several threads in Event.wait(clear=True), one set() lets at
\* most one of them return True.  A wait whose success is decided stands
\* inside the critical section with the flag still set, no other wait
\* stands there with it, its return with clear leaves the flag reset before
\* the lock is given up, and only set() raises the flag again.
C11_ClearConsumesOnce ==
    /\ [](\A t \in Threads :
            (pc[t] = "e_ret_t" /\ eop[t] = "wait")
            => /\ flag
               /\ owner[L] = t /\ rawLocked[L]
               /\ \A u \in Threads \ {t} : pc[u] # "e_ret_t")
    /\ [][\A t \in Threads :
             (pc[t] = "e_ret_t" /\ eop[t] = "wait" /\ eclear[t] /\ pc'[t] # "e_ret_t")
             => (flag /\ ~flag')]_vars
    /\ [][(~flag /\ flag') => \E t \in Threads : pc[t] = "s_set"]_vars

\* one wait with clear has succeeded while another wait with clear is in
\* progress
C11_Witness ==
    \E t, u \in Threads :
        /\ t # u
        /\ pc[t] = "e_ret_t" /\ eop[t] = "wait" /\ eclear[t]
        /\ eop[u] = "wait" /\ eclear[u]

\* C12: the count of a Semaphore is never negative; the acquire calls that
\* returned True never outnumber the initial value plus the permits
\* released; a non-blocking acquire that finds the count 0 returns False
\* and leaves the count 0.
C12_PermitsConserved ==
    /\ [](value >= 0)
    /\ [](sacq <= initial_value + srel)
    /\ [][\A t \in Threads :
             (pc[t] = "sa_nb" /\ value = 0 /\ pc'[t] # "sa_nb")
             => (value' = 0 /\ sacq' = sacq)]_vars

\* every permit, initial and released, has been taken, and a non-blocking
\* acquire stands before its test of the count
C12_Witness ==
    \E t \in Threads :
        pc[t] = "sa_nb" /\ value = 0 /\ srel > 0 /\ sacq = initial_value + srel

\* C13: threads blocked in Semaphore.acquire() return True once release
\* has made permits available: while the count covers every thread that
\* is inside a blocking acquire, none of these calls ends with an
\* exception instead.  (Raising: the places of a thread whose call is
\* ending, or has ended, with an exception.)
C13_BlockedAcquireGetsPermit ==
    [][\A t \in Threads :
          LET Raising == {"w_exc", "w_exc2", "w_fin_x", "e_exit_x",
                          "failed", "deadlock", "unowned"} IN
          (/\ eop[t] = "sacq"
           /\ srel > 0
           /\ value >= Cardinality({u \in Threads : eop[u] = "sacq"})
           /\ pc[t] \notin Raising)
          => pc'[t] \notin Raising]_vars

\* C14: BoundedSemaphore.release(n), at its test of the ceiling, raises
\* 'released too many times' exactly when count + n exceeds the initial
\* value, and then leaves the count alone; otherwise it adds n to the
\* count.  An acquire that returns True takes exactly one permit, so
\* acquire followed by release() restores the count, and the count never
\* exceeds the ceiling.
C14_BoundedRelease ==
    /\ [](value <= initial_value)
    /\ [][\A t \in Threads :
             (pc[t] = "br_add" /\ pc'[t] # "br_add")
             => IF value + sarg[t] > initial_value
                THEN /\ value' = value
                     /\ pc'[t] = "toomany" \/ (pc'[t] = "unlock" /\ ret'[t] = "toomany")
                ELSE /\ value' = value + sarg[t]
                     /\ pc'[t] = "sr_rel"]_vars
    /\ [][sacq' # sacq => (sacq' = sacq + 1 /\ value' = value - 1)]_vars

\* a release was refused at the ceiling after permits had been taken and
\* given back
C14_Witness ==
    \E t \in Threads :
        pc[t] = "toomany" /\ value = initial_value /\ sacq > 0 /\ srel = sacq

\* C15: the number of items a queue of capacity max_size stores is within
\* 0..max_size in every reachable state, for Queue, LifoQueue and
\* PriorityQueue, under every interleaving of blocking and non-blocking
\* put and get and of clear.
C15_LengthWithinCapacity ==
    0 <= Len(queue) /\ Len(queue) <= max_size

\* the queue is full while a blocking put waits for room
C15_Witness ==
    \E t \in Threads :
        eop[t] = "put" /\ pc[t] = "e_loop" /\ Len(queue) = max_size /\ max_size = MaxSize

\* C16: a non-blocking put on a queue that holds max_size items raises Full
\* and leaves the contents alone, and on a queue that holds fewer it
\* stores one item; so after one get a full queue takes exactly one more
\* put.  A non-blocking get on an empty queue raises Empty, and on any
\* other queue removes one item.
C16_FullAndEmpty ==
    /\ [][\A t \in Threads :
             (pc[t] = "p_nb" /\ pc'[t] # "p_nb")
             => IF Len(queue) = max_size
                THEN /\ queue' = queue
                     /\ pc'[t] = "full" \/ (pc'[t] = "unlock" /\ ret'[t] = "full")
                ELSE /\ Len(queue') = Len(queue) + 1
                     /\ pc'[t] = "q_rel"]_vars
    /\ [][\A t \in Threads :
             (pc[t] = "g_nb" /\ pc'[t] # "g_nb")
             => IF Len(queue) = 0
                THEN /\ queue' = queue
                     /\ pc'[t] = "empty" \/ (pc'[t] = "unlock" /\ ret'[t] = "empty")
                ELSE /\ Len(queue') = Len(queue) - 1
                     /\ pc'[t] = "q_rel"]_vars

\* a non-blocking put was refused on a full queue of MaxSize slots
C16_Witness ==
    \E t \in Threads : pc[t] = "full" /\ Len(queue) = max_size /\ max_size = MaxSize

\* C17: the FIFO Queue changes in three ways only: a put appends its item
\* behind all others, a get removes the item at the front and returns that
\* item, clear empties the queue.  So items come out in the order they
\* went in, none twice, and none is lost but by clear.
C17_FifoOrder ==
    [][qkind = "fifo" =>
          \/ queue' = queue
          \/ /\ \E item \in Items : queue' = Append(queue, item)
             /\ \E t \in Threads : pc'[t] = "q_rel" /\ pc[t] \in {"p_nb", "e_ret_t"}
          \/ /\ queue # <<>>
             /\ queue' = Tail(queue)
             /\ \E t \in Threads :
                   /\ pc'[t] = "q_rel" /\ pc[t] \in {"g_nb", "e_ret_t"}
                   /\ qitem'[t] = Head(queue)
          \/ /\ queue' = <<>>
             /\ \E t \in Threads : pc[t] = "q_clr"]_vars

\* a get is returning the older of two different items, the younger is
\* still queued
C17_Witness ==
    \E t \in Threads :
        /\ qkind = "fifo"
        /\ pc[t] = "q_rel" /\ qitem[t] # 0
        /\ Len(queue) = 1 /\ queue[1] # qitem[t]

\* C18: the list of a PriorityQueue is a binary min-heap after every put
\* and every get; a get returns an item that no item of the list is less
\* than and takes exactly that item out; a put adds exactly its item.
C18_HeapOrder ==
    /\ [](\A i \in 2..Len(heap) : ~(heap[i] < heap[i \div 2]))
    /\ [][LET Count(h, x) == Cardinality({i \in 1..Len(h) : h[i] = x}) IN
          /\ Len(heap') < Len(heap) =>
                /\ \A i \in 1..Len(heap) : ~(heap[i] < hret')
                /\ \A x \in Items :
                      Count(heap', x) = Count(heap, x) - (IF x = hret' THEN 1 ELSE 0)
          /\ Len(heap') > Len(heap) =>
                \E item \in Items : \A x \in Items :
                      Count(heap', x) = Count(heap, x) + (IF x = item THEN 1 ELSE 0)]_vars

\* 3, 1 and 2 went in and 1 came out
C18_Witness ==
    hret = 1 /\ Len(heap) = 2 /\ heap[1] = 2 /\ heap[2] = 3

\* C19: a put blocked on a full queue completes once a slot is free, and a
\* get blocked on an empty queue returns an item once one is stored: while
\* there is room for every thread inside a blocking put (an item for every
\* thread inside a blocking get), none of these calls ends with an
\* exception instead.  (Raising: the places of a thread whose call is
\* ending, or has ended, with an exception.)
C19_NoLostWakeup ==
    [][\A t \in Threads :
          LET Raising == {"w_exc", "w_exc2", "w_fin_x", "e_exit_x",
                          "failed", "deadlock", "unowned", "full", "empty"}
              putters == Cardinality({u \in Threads : eop[u] = "put"})
              getters == Cardinality({u \in Threads : eop[u] = "get"})
          IN  (/\ \/ eop[t] = "put" /\ Len(queue) + putters <= max_size
                  \/ eop[t] = "get" /\ Len(queue) >= getters
               /\ pc[t] \notin Raising)
              => pc'[t] \notin Raising]_vars

\* C20: start() is one-shot: whatever the interleaving of start() calls on
\* one Thread object, _thread.start_new_thread is called at most once (the
\* target is spawned at most once), and a start() that tests the flag after
\* a raw thread was spawned fails with "thread already started".
C20_StartOnce ==
    /\ [](spawned <= 1)
    /\ [][\A t \in Threads :
            (pc[t] = "st_chk" /\ spawned >= 1) => pc'[t] \in {"st_chk", "already"}]_vars

\* C21: once the target of a started thread has returned or raised, the
\* completion Event gets set: a raw thread that has ended has set it (the
\* target's failure is swallowed on the way), and a join() issued when the
\* Event is set does not fail, so that every join() returns true in the end.
C21_JoinAfterExit ==
    /\ [](\A b \in BootThreads :
            (bout[b] # "none" /\ pc[b] \in {"idle", "b_lost"}) => flag)
    /\ [][\A t \in Threads :
            (flag /\ Ready(t) /\ pc[t] # "deadlock") => pc'[t] # "deadlock"]_vars

\* C22: a get(block=False) whose test of the completion Event finds it not
\* set fails with NotReadyError, and one that finds it set goes on to the
\* stored outcome; the stored outcome is replayed: a stored exception is
\* re-raised, else the stored value is returned; a blocking get() never
\* fails with NotReadyError, it fails with TimeoutError exactly when the
\* wait ran out of time, and it goes on to the stored outcome only when
\* the Event is set.
C22_GetOutcome ==
    /\ [](\A t \in Threads : (eop[t] = "rget" /\ pc[t] = "e_ret_t") => flag)
    /\ [][\A t \in Threads :
            LET cont == IF pc'[t] = "unlock" THEN ret'[t] ELSE pc'[t]
            IN  /\ (pc[t] = "rg_isset" /\ pc'[t] # "rg_isset")
                    => cont = IF flag THEN "rg_val" ELSE "notready"
                /\ (eop[t] = "rget" /\ pc[t] = "e_ret_f" /\ pc'[t] # pc[t])
                    => cont = "timeout" /\ ~flag
                /\ (eop[t] = "rget" /\ pc[t] = "e_ret_t" /\ pc'[t] # pc[t])
                    => cont = "rg_val"
                /\ (eop[t] = "rget") => pc'[t] # "notready"
                /\ (pc[t] = "rg_val" /\ pc'[t] # "rg_val")
                    => IF rexc # None
                       THEN pc'[t] = "reraised" /\ gret'[t] = rexc
                       ELSE pc'[t] = "rg_rv"
                /\ (pc[t] = "rg_rv" /\ pc'[t] # "rg_rv")
                    => pc'[t] = "idle" /\ gret'[t] = rrv]_vars

\* C22 witness: one thread's timed get() has failed with TimeoutError, and
\* later, after a set(exc), another thread's get() has re-raised the stored
\* exception.
C22_Witness ==
    \E t, u \in Threads :
        /\ pc[t] = "timeout"
        /\ pc[u] = "reraised"
        /\ gret[u] = rexc
        /\ rexc # None

\* C23: a _Result is completed once: from the moment the completion Event
\* is set the stored outcome (exception and value) never changes, whatever
\* is called afterwards.
C23_OutcomeStable ==
    [][flag => (rexc' = rexc /\ rrv' = rrv)]_vars

\* C24: the status of an AsyncTask changes only along PENDING -> RUNNING,
\* PENDING -> CANCELLED, RUNNING -> COMPLETED, RUNNING -> FAILED and
\* RUNNING -> CANCELLED; COMPLETED, FAILED and CANCELLED are never left.
C24_StatusTransitions ==
    [][status' # status =>
        <<status, status'>> \in {<<"PENDING", "RUNNING">>, <<"PENDING", "CANCELLED">>,
                                 <<"RUNNING", "COMPLETED">>, <<"RUNNING", "FAILED">>,
                                 <<"RUNNING", "CANCELLED">>}]_vars

\* C25: once a cancel() has found the task PENDING, the task is CANCELLED
\* and the target is never called.
C25_CancelPending ==
    [](cpend => (status = "CANCELLED" /\ ran = 0))

\* C26: delay() is one-shot: a delay() that tests the status after a raw
\* thread was started for the task fails with "Task already started", so at
\* most one raw thread is started and the target is called at most once.
C26_DelayOnce ==
    /\ [](spawned <= 1 /\ ran <= 1)
    /\ [][\A t \in Threads :
            (pc[t] = "d_body" /\ spawned >= 1 /\ pc'[t] # "d_body")
                => pc'[t] = "x_already"]_vars

\* C27: a cancel() that finds the task COMPLETED, FAILED or CANCELLED
\* returns False and changes nothing: not the status, not a _Result, not a
\* Thread and not a raw thread.
C27_CancelTerminal ==
    [][\A t \in Threads :
        (pc[t] = "c_body" /\ status \in Terminal /\ pc'[t] # "c_body")
            => /\ pc'[t] = "x_c_false"
               /\ UNCHANGED <<status, terror, tresult, tthread, results, tident, tstopped>>
               /\ \A b \in BootThreads : pc'[b] = pc[b]]_vars

\* C27 witness: a cancel() is about to return False on a COMPLETED task
\* whose _Result is completed.
C27_Witness ==
    \E t \in Threads :
        /\ pc[t] = "x_c_false"
        /\ status = "COMPLETED"
        /\ results[tresult][1]

\* C28: a raw thread that has ended after its target returned leaves the
\* task COMPLETED with the return value in its _Result, one that has ended
\* after its target raised leaves the task FAILED with that exception in its
\* _Result; and no _Result is completed while the task is PENDING or
\* RUNNING.
C28_Outcome ==
    /\ [](\A b \in BootThreads :
            (pc[b] = "idle" /\ bout[b] = "ret")
                => status = "COMPLETED" /\ results[BootIndex(b)] = <<TRUE, None, brv[b]>>)
    /\ [](\A b \in BootThreads :
            (pc[b] = "idle" /\ bout[b] = "raise")
                => status = "FAILED" /\ results[BootIndex(b)] = <<TRUE, berr[b], None>>)
    /\ [](status \in {"PENDING", "RUNNING"} => \A k \in 1..MaxBoot : ~results[k][1])

\* C29: when shutdown(wait=True) returns, every work item that was submitted
\* before the call (its submit had put it into the work queue and ended)
\* has a completed _Result: the Event of the item's result is set.
C29_ShutdownCompletes ==
    \A t \in Threads :
        sdone[t] => \A w \in sseen[t] : work_result[w] \in finished

\* C30: what submit hands its caller for a work item it has put into the
\* work queue is the _Result of that item, the one _WorkItem.__call__
\* completes with the target's return value or exception.
C30_SubmitGivesItemResult ==
    \A w \in 1..Len(given) :
        (given[w] # 0 /\ \E i \in 1..Len(queue) : queue[i] = w) =>
            given[w] = work_result[w]

\* C31: once the shutdown flag is set it stays set, a submit() called from
\* then on gets no further than its test of the flag, and no work item is
\* added to the pool's queue.
C31_NoSubmitAfterShutdown ==
    [][pshutdown =>
        /\ pshutdown'
        /\ \A t \in Threads : (pop[t] = "none" /\ pop'[t] = "submit") => FALSE
        /\ Len(queue') <= Len(queue)]_vars

\* C33: the pool's list of workers never shrinks and never holds more than
\* max_workers Threads, and a submit() whose put went through while the list
\* held fewer than max_workers Threads returns with exactly one more Thread
\* in the list.
C33_LazyGrowth ==
    [][/\ Len(threads') >= Len(threads)
       /\ Len(threads') <= max_workers
       /\ \A t \in Threads :
            (pop[t] = "submit" /\ pop'[t] = "none" /\ pc[t] = "idle"
             /\ Len(threads) < max_workers)
                => Len(threads') = Len(threads) + 1 /\ pc'[t] = "idle"]_vars

\* C34 (as claimed): in every reachable state the depth counter of the Lock
\* is > 0 exactly when an owner is recorded.
C34_DepthIffOwner ==
    locked_count[L] > 0 <=> owner[L] # None

\* C34 (amended): the depth counter is > 0 exactly when an owner is recorded,
\* except while the thread that has the raw lock is between the two
\* assignments: after line 103 and before line 104 of acquire (owner
\* written, depth not yet), or after line 120 and before line 122 of the
\* release that took the depth to 0 (depth written, owner not yet cleared).
C34_DepthIffOwnerAtRest ==
    (\A a \in Agents : ~(lk[a] = L /\ pc[a] \in {"cnt", "unlock"}))
        => (locked_count[L] > 0 <=> owner[L] # None)

\* C34 witness: a thread owns the lock at depth 1 and is between calls while
\* another thread, registered in the waiting set, waits on the raw lock.
C34_Witness ==
    \E t, u \in Threads :
        /\ t # u
        /\ owner[L] = t /\ locked_count[L] = 1 /\ Ready(t)
        /\ pc[u] = "raw" /\ lk[u] = L
        /\ u \in waiting_threads[L]

\* C37: once a shutdown(wait=True) has returned, a further
\* shutdown(wait=True) changes neither the shutdown flag nor the contents of
\* the work queue nor the list of workers, and it returns without waiting
\* for anything.
C37_ShutdownIdempotent ==
    [][\A t \in Threads :
        (/\ shutret
         /\ \/ pop[t] = "none" /\ pop'[t] = "shutdown" /\ pwait'[t]
            \/ pop[t] = "shutdown" /\ pop'[t] = "none" /\ pwait[t])
        => /\ pshutdown' = pshutdown
           /\ threads' = threads
           /\ queue' = queue
           /\ pop[t] = "shutdown" => pc'[t] = "idle"]_vars

\* C37 witness: a shutdown(wait=True) is called, with an item left in the
\* work queue, after another shutdown(wait=True) has returned.
C37_Witness ==
    \E t \in Threads :
        /\ shutret
        /\ pc[t] = "sh_wait" /\ pwait[t]
        /\ Len(queue) > 0

\* C38: threads that contend for one Lock and hold it for less than the
\* staleness threshold never get the 'potential deadlock' error from
\* acquire().  As long as the clock has not advanced no thread has held the
\* lock for any time at all, so no acquire() may raise then.
C38_NoFalseDeadlock ==
    [][\A t \in Threads :
        (pc[t] # "deadlock" /\ pc'[t] = "deadlock") => now > 0]_vars

\* C35: of the two releases aimed at the gate of a timed waiter, the
\* notifier's and the timer's, exactly one opens it.  So the timer's release
\* finds the gate already opened (and fails) only when a notify has
\* selected the waiter before, and wait(timeout) reports True exactly when
\* a notify selected its waiter, False when the timer was first.
C35_OneOpener ==
    [][/\ \A w \in WaiterIds :
            (pc[TimerOf(w)] = "t_rel" /\ pc'[TimerOf(w)] = "t_err") => w \in notified
       /\ \A t \in Threads :
            (pc[t] = "w_rm" /\ pc'[t] # "w_rm" /\ wtmo[t] # NoTimeout)
                => (gotit[t] <=> myw[t] \in notified)]_vars

\* C39: the waiter sequence of a Condition holds only waiters of wait()
\* calls in progress: every waiter in it is the waiter of a thread that is
\* inside wait(), so the sequence is never longer than the number of such
\* threads.
C39_OnlyLiveWaiters ==
    /\ \A i \in 1..Len(waiters) : \E t \in Threads : myw[t] = waiters[i]
    /\ Len(waiters) <= Cardinality({t \in Threads : myw[t] # None})

\* C40: the Future that delay() returned is completed once the task is
\* CANCELLED.  Stated for the moment from which nothing more can happen to
\* it: the task is CANCELLED, cancel() has terminated its raw thread and
\* every other raw thread has ended or has been terminated; the task's
\* _Result must then be completed, or a get() without timeout on it never
\* returns.
C40_CancelledCompletes ==
    (/\ status = "CANCELLED"
     /\ tresult \in 1..spawned
     /\ tthread # 0 /\ pc[Boot(tthread)] = "killed"
     /\ \A b \in BootThreads : pc[b] \in {"idle", "killed"})
        => results[tresult][1]

C32_FailureCaptured ==
    /\ [](\A w \in wdone :
            wout[w] < 0 => /\ work_result[w] \in finished
                           /\ rstore[w] = <<-wout[w], None>>)
    /\ [][(pop[Worker] = "worker" /\ pop'[Worker] # "worker")
            => pc[Worker] = "wk_task" /\ wtask = None]_vars

=========================================================================
